---- MODULE Spec2Model ----
(***************************************************************************)
(* FloatChat query pipeline: the query router, the SQL synthesizer with   *)
(* its validation and template fallback, the language-model client's      *)
(* attempt loops and the tool orchestrator (MCP pipeline).                 *)
(*                                                                         *)
(* Text is a sequence of one-character strings, so that the substring     *)
(* tests, lower()/upper() and the template formatting of the Python code  *)
(* are computed, not assumed.                                              *)
(***************************************************************************)
EXTENDS Integers, Sequences, FiniteSets, TLC

(***************************************************************************)
(* Bounds of the model                                                     *)
(***************************************************************************)
\* longest query, in words, that the routing specification enumerates
MaxWords == 2

(***************************************************************************)
(* Text helpers: Python's str.lower(), str.upper(), `sub in s`             *)
(***************************************************************************)
LowerLetters ==
  <<"a","b","c","d","e","f","g","h","i","j","k","l","m","n","o","p","q","r","s","t","u","v","w","x","y","z">>

UpperLetters ==
  <<"A","B","C","D","E","F","G","H","I","J","K","L","M","N","O","P","Q","R","S","T","U","V","W","X","Y","Z">>

LetterIndex(alphabet, c) == CHOOSE i \in 1..Len(alphabet) : alphabet[i] = c

LowerChar(c) ==
  IF \E i \in 1..Len(UpperLetters) : UpperLetters[i] = c
    THEN LowerLetters[LetterIndex(UpperLetters, c)]
    ELSE c

UpperChar(c) ==
  IF \E i \in 1..Len(LowerLetters) : LowerLetters[i] = c
    THEN UpperLetters[LetterIndex(LowerLetters, c)]
    ELSE c

\* str.lower()
Lower(s) == [i \in 1..Len(s) |-> LowerChar(s[i])]

\* str.upper()
Upper(s) == [i \in 1..Len(s) |-> UpperChar(s[i])]

\* s[p+1 .. p+Len(sub)] = sub
MatchesAt(s, sub, p) ==
  /\ p + Len(sub) <= Len(s)
  /\ \A k \in 1..Len(sub) : s[p + k] = sub[k]

\* Python's `sub in s` on strings
Contains(s, sub) == \E p \in 0..(Len(s) - Len(sub)) : MatchesAt(s, sub, p)

\* any(word in s for word in words), words a sequence of texts
ContainsAny(s, words) == \E i \in 1..Len(words) : Contains(s, words[i])

Space == <<" ">>

RECURSIVE JoinWords(_)
\* " ".join(words)
JoinWords(words) ==
  IF Len(words) = 0 THEN <<>>
  ELSE IF Len(words) = 1 THEN words[1]
  ELSE words[1] \o Space \o JoinWords(Tail(words))

(***************************************************************************)
(* Query Router: _analyze_query_complexity                                 *)
(***************************************************************************)
mcp_indicators ==
  << <<"n","e","a","r","e","s","t">>, <<"c","l","o","s","e","s","t">>, <<"n","e","a","r","b","y">>, <<"a","r","o","u","n","d">>, <<"w","i","t","h","i","n">>,
     <<"c","o","m","p","a","r","e">>, <<"v","e","r","s","u","s">>, <<"v","s">>, <<"d","i","f","f","e","r","e","n","c","e">>, <<"b","e","t","w","e","e","n">>,
     <<"a","v","e","r","a","g","e">>, <<"m","e","a","n">>, <<"s","t","a","t","i","s","t","i","c","s">>, <<"s","u","m","m","a","r","y">>, <<"t","r","e","n","d">>, <<"a","n","a","l","y","z","e">>,
     <<"a","r","a","b","i","a","n"," ","s","e","a"," ","a","n","d"," ","b","a","y"," ","o","f"," ","b","e","n","g","a","l">>,
     <<"m","u","l","t","i","p","l","e"," ","r","e","g","i","o","n","s">>,
     <<"b","g","c"," ","c","o","m","p","a","r","i","s","o","n">>, <<"o","x","y","g","e","n"," ","l","e","v","e","l","s"," ","a","c","r","o","s","s">>,
     <<"t","r","a","j","e","c","t","o","r","y">>, <<"p","a","t","h">>, <<"r","o","u","t","e">> >>

BoolToInt(b) == IF b THEN 1 ELSE 0

\* sum(['arabian' in q, 'bengal' in q, 'equator' in q])
regions_mentioned(query_lower) ==
  BoolToInt(Contains(query_lower, <<"a","r","a","b","i","a","n">>))
  + BoolToInt(Contains(query_lower, <<"b","e","n","g","a","l">>))
  + BoolToInt(Contains(query_lower, <<"e","q","u","a","t","o","r">>))

\* faulty variant: the indicators are matched against the raw query text
AnalyzeQueryComplexityCaseSensitive(q) ==
  IF ContainsAny(q, mcp_indicators) THEN "complex"
  ELSE IF regions_mentioned(q) > 1 THEN "complex"
  ELSE "simple"

analyze_query_complexity(q) ==
  LET query_lower == Lower(q)
  IN  IF ContainsAny(query_lower, mcp_indicators) THEN "complex"
      ELSE IF regions_mentioned(query_lower) > 1 THEN "complex"
      ELSE "simple"

(***************************************************************************)
(* Configuration: Config.REGIONS                                           *)
(***************************************************************************)
REGIONS ==
  [ arabian_sea   |-> [lat_min |-> 8,  lat_max |-> 30, lon_min |-> 50,   lon_max |-> 75],
    bay_of_bengal |-> [lat_min |-> 5,  lat_max |-> 22, lon_min |-> 80,   lon_max |-> 100],
    equator       |-> [lat_min |-> -5, lat_max |-> 5,  lon_min |-> -180, lon_max |-> 180] ]

\* Python's None where a text or a name is expected
NoValue == "none"

\* Python's None where a text (a sequence of characters) is expected
NoText == << "<None>" >>

(***************************************************************************)
(* Intent Analyzer: ArgoSQLGenerator._analyze_query_intent                 *)
(***************************************************************************)
\* faulty variant: the statistical words are tested before the profile words
DetectQueryTypeStatisticalFirst(query_lower) ==
  IF ContainsAny(query_lower, << <<"a","v","e","r","a","g","e">>, <<"m","e","a","n">>, <<"m","a","x">>, <<"m","i","n">>, <<"c","o","u","n","t">>, <<"s","u","m">> >>)
    THEN "statistical"
  ELSE IF ContainsAny(query_lower, << <<"p","r","o","f","i","l","e">>, <<"d","e","p","t","h">>, <<"v","e","r","t","i","c","a","l">>, <<"p","r","e","s","s","u","r","e">> >>)
    THEN "profile"
  ELSE IF ContainsAny(query_lower, << <<"c","o","m","p","a","r","e">>, <<"c","o","m","p","a","r","i","s","o","n">>, <<"v","s">>, <<"v","e","r","s","u","s">> >>)
    THEN "comparative"
  ELSE IF ContainsAny(query_lower, << <<"t","r","a","j","e","c","t","o","r","y">>, <<"p","a","t","h">>, <<"t","r","a","c","k">>, <<"m","o","v","e","m","e","n","t">> >>)
    THEN "trajectory"
  ELSE IF ContainsAny(query_lower, << <<"t","i","m","e">>, <<"t","e","m","p","o","r","a","l">>, <<"e","v","o","l","u","t","i","o","n">>, <<"t","r","e","n","d">> >>)
    THEN "time_series"
  ELSE IF ContainsAny(query_lower, << <<"m","a","p">>, <<"l","o","c","a","t","i","o","n">>, <<"p","o","s","i","t","i","o","n">>, <<"g","e","o","g","r","a","p","h","i","c">>, <<"n","e","a","r","e","s","t">> >>)
    THEN "geographic"
  ELSE "basic"

detect_query_type(query_lower) ==
  IF ContainsAny(query_lower, << <<"p","r","o","f","i","l","e">>, <<"d","e","p","t","h">>, <<"v","e","r","t","i","c","a","l">>, <<"p","r","e","s","s","u","r","e">> >>)
    THEN "profile"
  ELSE IF ContainsAny(query_lower, << <<"c","o","m","p","a","r","e">>, <<"c","o","m","p","a","r","i","s","o","n">>, <<"v","s">>, <<"v","e","r","s","u","s">> >>)
    THEN "comparative"
  ELSE IF ContainsAny(query_lower, << <<"a","v","e","r","a","g","e">>, <<"m","e","a","n">>, <<"m","a","x">>, <<"m","i","n">>, <<"c","o","u","n","t">>, <<"s","u","m">> >>)
    THEN "statistical"
  ELSE IF ContainsAny(query_lower, << <<"t","r","a","j","e","c","t","o","r","y">>, <<"p","a","t","h">>, <<"t","r","a","c","k">>, <<"m","o","v","e","m","e","n","t">> >>)
    THEN "trajectory"
  ELSE IF ContainsAny(query_lower, << <<"t","i","m","e">>, <<"t","e","m","p","o","r","a","l">>, <<"e","v","o","l","u","t","i","o","n">>, <<"t","r","e","n","d">> >>)
    THEN "time_series"
  ELSE IF ContainsAny(query_lower, << <<"m","a","p">>, <<"l","o","c","a","t","i","o","n">>, <<"p","o","s","i","t","i","o","n">>, <<"g","e","o","g","r","a","p","h","i","c">>, <<"n","e","a","r","e","s","t">> >>)
    THEN "geographic"
  ELSE "basic"

parameter_mapping ==
  [ temperature |-> << <<"t","e","m","p","e","r","a","t","u","r","e">>, <<"t","e","m","p">>, <<"s","s","t">>, <<"s","e","a"," ","s","u","r","f","a","c","e"," ","t","e","m","p","e","r","a","t","u","r","e">> >>,
    salinity    |-> << <<"s","a","l","i","n","i","t","y">>, <<"s","a","l">>, <<"s","s","s">>, <<"s","e","a"," ","s","u","r","f","a","c","e"," ","s","a","l","i","n","i","t","y">> >>,
    pressure    |-> << <<"p","r","e","s","s","u","r","e">>, <<"d","e","p","t","h">>, <<"v","e","r","t","i","c","a","l">> >>,
    oxygen      |-> << <<"o","x","y","g","e","n">>, <<"d","o","x","y">>, <<"d","i","s","s","o","l","v","e","d"," ","o","x","y","g","e","n">> >>,
    chlorophyll |-> << <<"c","h","l","o","r","o","p","h","y","l","l">>, <<"c","h","l","a">>, <<"p","h","y","t","o","p","l","a","n","k","t","o","n">> >>,
    nitrate     |-> << <<"n","i","t","r","a","t","e">>, <<"n","o","3">> >> ]

\* the parameter list, as the set of its members
detect_parameters(query_lower) ==
  LET found == { p \in DOMAIN parameter_mapping :
                   ContainsAny(query_lower, parameter_mapping[p]) }
  IN  IF "temperature" \in found /\ "pressure" \notin found
        THEN found \cup {"pressure"}
        ELSE found

detect_region(query_lower) ==
  IF Contains(query_lower, <<"a","r","a","b","i","a","n"," ","s","e","a">>) \/ Contains(query_lower, <<"a","r","a","b","i","a","n">>)
    THEN "arabian_sea"
  ELSE IF Contains(query_lower, <<"b","a","y"," ","o","f"," ","b","e","n","g","a","l">>) \/ Contains(query_lower, <<"b","e","n","g","a","l">>)
    THEN "bay_of_bengal"
  ELSE IF Contains(query_lower, <<"e","q","u","a","t","o","r">>)
    THEN "equator"
  ELSE NoValue

detect_float_type(query_lower) ==
  IF \/ Contains(query_lower, <<"b","g","c">>)
     \/ Contains(query_lower, <<"b","i","o","-","g","e","o">>)
     \/ Contains(query_lower, <<"b","i","o","g","e","o","c","h","e","m","i","c","a","l">>)
    THEN "BGC"
  ELSE IF Contains(query_lower, <<"c","o","r","e">>) \/ Contains(query_lower, <<"s","t","a","n","d","a","r","d">>)
    THEN "Core"
  ELSE NoValue

detect_timeframe(query_lower) ==
  IF ContainsAny(query_lower, << <<"l","a","s","t"," ","m","o","n","t","h">>, <<"p","a","s","t"," ","m","o","n","t","h">> >>)
    THEN "last_month"
  ELSE IF ContainsAny(query_lower, << <<"l","a","s","t"," ","6"," ","m","o","n","t","h","s">>, <<"p","a","s","t"," ","6"," ","m","o","n","t","h","s">> >>)
    THEN "last_6_months"
  ELSE IF ContainsAny(query_lower, << <<"l","a","s","t"," ","y","e","a","r">>, <<"p","a","s","t"," ","y","e","a","r">> >>)
    THEN "last_year"
  ELSE IF Contains(query_lower, <<"r","e","c","e","n","t">>)
    THEN "last_month"
  ELSE NoValue

analyze_query_intent(user_query) ==
  LET query_lower == Lower(user_query)
      qt == detect_query_type(query_lower)
  IN  [ query_type |-> qt,
        parameters |-> detect_parameters(query_lower),
        region     |-> detect_region(query_lower),
        timeframe  |-> detect_timeframe(query_lower),
        float_type |-> detect_float_type(query_lower),
        statistics |-> (qt = "statistical"),
        comparison |-> (qt = "comparative") ]

(***************************************************************************)
(* Number and date formatting: str(int), strftime('%Y-%m-%d')              *)
(***************************************************************************)
DigitChars == <<"0","1","2","3","4","5","6","7","8","9">>

RECURSIVE NatToText(_)
NatToText(n) ==
  IF n < 10 THEN << DigitChars[n + 1] >>
  ELSE NatToText(n \div 10) \o << DigitChars[(n % 10) + 1] >>

\* str(n) for an int
IntToText(n) == IF n < 0 THEN <<"-">> \o NatToText(0 - n) ELSE NatToText(n)

\* zero-padded decimal of width w
RECURSIVE PadLeft(_, _)
PadLeft(t, w) == IF Len(t) >= w THEN t ELSE PadLeft(<<"0">> \o t, w)

\* the proleptic Gregorian date of a day number (days since 1970-01-01)
CivilFromDays(days) ==
  LET z   == days + 719468
      era == z \div 146097
      doe == z - era * 146097
      yoe == (doe - (doe \div 1460) + (doe \div 36524) - (doe \div 146096)) \div 365
      doy == doe - (365 * yoe + (yoe \div 4) - (yoe \div 100))
      mp  == (5 * doy + 2) \div 153
      d   == doy - ((153 * mp + 2) \div 5) + 1
      m   == IF mp < 10 THEN mp + 3 ELSE mp - 9
      y   == yoe + era * 400 + (IF m <= 2 THEN 1 ELSE 0)
  IN  [year |-> y, month |-> m, day |-> d]

\* date.strftime('%Y-%m-%d')
DateText(days) ==
  LET c == CivilFromDays(days)
  IN  PadLeft(NatToText(c.year), 4) \o <<"-">> \o PadLeft(NatToText(c.month), 2)
        \o <<"-">> \o PadLeft(NatToText(c.day), 2)

IsSpace(c) == c \in {" ", "\n", "\t", "\r"}

\* str.strip()
RECURSIVE StripLeft(_)
StripLeft(s) == IF Len(s) > 0 /\ IsSpace(s[1]) THEN StripLeft(Tail(s)) ELSE s

RECURSIVE StripRight(_)
StripRight(s) ==
  IF Len(s) > 0 /\ IsSpace(s[Len(s)]) THEN StripRight(SubSeq(s, 1, Len(s) - 1)) ELSE s

Strip(s) == StripRight(StripLeft(s))

(***************************************************************************)
(* SQL Synthesizer: templates                                              *)
(***************************************************************************)
template_basic_floats ==
  [ pre  |-> <<"\n"," "," "," "," "," "," "," "," "," "," "," "," "," "," "," "," ","S","E","L","E","C","T",
          " ","w","m","o","_","i","d",","," ","l","a","t","i","t","u","d","e",","," ","l","o","n","g","i",
          "t","u","d","e",","," ","p","r","o","f","i","l","e","_","d","a","t","e",","," ","f","l","o","a",
          "t","_","c","a","t","e","g","o","r","y",","," ","c","y","c","l","e","_","n","u","m","b","e","r",
          " ","\n"," "," "," "," "," "," "," "," "," "," "," "," "," "," "," "," ","F","R","O","M"," ",
          "p","u","b","l","i","c",".","a","r","g","o","_","p","r","o","f","i","l","e","s"," ","\n"," ",
          " "," "," "," "," "," "," "," "," "," "," "," "," "," "," ","W","H","E","R","E"," ">>,
    mid  |-> <<" ","\n"," "," "," "," "," "," "," "," "," "," "," "," "," "," "," "," ","L","I","M","I","T"," ">>,
    post |-> <<"\n"," "," "," "," "," "," "," "," "," "," "," "," ">> ]

template_temperature_profiles ==
  [ pre  |-> <<"\n"," "," "," "," "," "," "," "," "," "," "," "," "," "," "," "," ","S","E","L","E","C","T",
          " ","\n"," "," "," "," "," "," "," "," "," "," "," "," "," "," "," "," "," "," "," "," ","w",
          "m","o","_","i","d",","," ","\n"," "," "," "," "," "," "," "," "," "," "," "," "," "," "," ",
          " "," "," "," "," ","c","y","c","l","e","_","n","u","m","b","e","r",","," ","\n"," "," "," ",
          " "," "," "," "," "," "," "," "," "," "," "," "," "," "," "," "," ","p","r","o","f","i","l","e",
          "_","d","a","t","e",",","\n"," "," "," "," "," "," "," "," "," "," "," "," "," "," "," "," ",
          " "," "," "," ","l","a","t","i","t","u","d","e",",","\n"," "," "," "," "," "," "," "," "," ",
          " "," "," "," "," "," "," "," "," "," "," ","l","o","n","g","i","t","u","d","e",",","\n"," ",
          " "," "," "," "," "," "," "," "," "," "," "," "," "," "," "," "," "," "," ","p","r","e","s","s",
          "u","r","e","_","d","b","a","r",","," ","\n"," "," "," "," "," "," "," "," "," "," "," "," ",
          " "," "," "," "," "," "," "," ","t","e","m","p","e","r","a","t","u","r","e","_","c","e","l","s",
          "i","u","s",",","\n"," "," "," "," "," "," "," "," "," "," "," "," "," "," "," "," "," "," ",
          " "," ","s","a","l","i","n","i","t","y","_","p","s","u",",","\n"," "," "," "," "," "," "," ",
          " "," "," "," "," "," "," "," "," "," "," "," "," ","f","l","o","a","t","_","c","a","t","e","g",
          "o","r","y","\n"," "," "," "," "," "," "," "," "," "," "," "," "," "," "," "," ","F","R","O",
          "M"," ","p","u","b","l","i","c",".","a","r","g","o","_","p","r","o","f","i","l","e","s"," ",
          "\n"," "," "," "," "," "," "," "," "," "," "," "," "," "," "," "," ","W","H","E","R","E"," ",
          "a","r","r","a","y","_","l","e","n","g","t","h","(","t","e","m","p","e","r","a","t","u","r","e",
          "_","c","e","l","s","i","u","s",","," ","1",")"," ",">"," ","0"," ","\n"," "," "," "," "," ",
          " "," "," "," "," "," "," "," "," "," "," "," "," "," "," ","A","N","D"," ","a","r","r","a","y",
          "_","l","e","n","g","t","h","(","p","r","e","s","s","u","r","e","_","d","b","a","r",","," ","1",
          ")"," ",">"," ","0","\n"," "," "," "," "," "," "," "," "," "," "," "," "," "," "," "," "," ",
          " "," "," ","A","N","D"," ">>,
    mid  |-> <<" ","\n"," "," "," "," "," "," "," "," "," "," "," "," "," "," "," "," ","O","R","D","E","R",
          " ","B","Y"," ","p","r","o","f","i","l","e","_","d","a","t","e"," ","D","E","S","C","\n"," ",
          " "," "," "," "," "," "," "," "," "," "," "," "," "," "," ","L","I","M","I","T"," ">>,
    post |-> <<"\n"," "," "," "," "," "," "," "," "," "," "," "," ">> ]

template_salinity_profiles ==
  [ pre  |-> <<"\n"," "," "," "," "," "," "," "," "," "," "," "," "," "," "," "," ","S","E","L","E","C","T",
          " ","\n"," "," "," "," "," "," "," "," "," "," "," "," "," "," "," "," "," "," "," "," ","w",
          "m","o","_","i","d",","," ","\n"," "," "," "," "," "," "," "," "," "," "," "," "," "," "," ",
          " "," "," "," "," ","c","y","c","l","e","_","n","u","m","b","e","r",","," ","\n"," "," "," ",
          " "," "," "," "," "," "," "," "," "," "," "," "," "," "," "," "," ","p","r","o","f","i","l","e",
          "_","d","a","t","e",",","\n"," "," "," "," "," "," "," "," "," "," "," "," "," "," "," "," ",
          " "," "," "," ","l","a","t","i","t","u","d","e",",","\n"," "," "," "," "," "," "," "," "," ",
          " "," "," "," "," "," "," "," "," "," "," ","l","o","n","g","i","t","u","d","e",",","\n"," ",
          " "," "," "," "," "," "," "," "," "," "," "," "," "," "," "," "," "," "," ","p","r","e","s","s",
          "u","r","e","_","d","b","a","r",","," ","\n"," "," "," "," "," "," "," "," "," "," "," "," ",
          " "," "," "," "," "," "," "," ","t","e","m","p","e","r","a","t","u","r","e","_","c","e","l","s",
          "i","u","s",",","\n"," "," "," "," "," "," "," "," "," "," "," "," "," "," "," "," "," "," ",
          " "," ","s","a","l","i","n","i","t","y","_","p","s","u",",","\n"," "," "," "," "," "," "," ",
          " "," "," "," "," "," "," "," "," "," "," "," "," ","f","l","o","a","t","_","c","a","t","e","g",
          "o","r","y","\n"," "," "," "," "," "," "," "," "," "," "," "," "," "," "," "," ","F","R","O",
          "M"," ","p","u","b","l","i","c",".","a","r","g","o","_","p","r","o","f","i","l","e","s"," ",
          "\n"," "," "," "," "," "," "," "," "," "," "," "," "," "," "," "," ","W","H","E","R","E"," ",
          "a","r","r","a","y","_","l","e","n","g","t","h","(","s","a","l","i","n","i","t","y","_","p","s",
          "u",","," ","1",")"," ",">"," ","0"," ","\n"," "," "," "," "," "," "," "," "," "," "," "," ",
          " "," "," "," "," "," "," "," ","A","N","D"," ","a","r","r","a","y","_","l","e","n","g","t","h",
          "(","p","r","e","s","s","u","r","e","_","d","b","a","r",","," ","1",")"," ",">"," ","0","\n",
          " "," "," "," "," "," "," "," "," "," "," "," "," "," "," "," "," "," "," "," ","A","N","D"," ">>,
    mid  |-> <<" ","\n"," "," "," "," "," "," "," "," "," "," "," "," "," "," "," "," ","O","R","D","E","R",
          " ","B","Y"," ","p","r","o","f","i","l","e","_","d","a","t","e"," ","D","E","S","C","\n"," ",
          " "," "," "," "," "," "," "," "," "," "," "," "," "," "," ","L","I","M","I","T"," ">>,
    post |-> <<"\n"," "," "," "," "," "," "," "," "," "," "," "," ">> ]

template_bgc_profiles ==
  [ pre  |-> <<"\n"," "," "," "," "," "," "," "," "," "," "," "," "," "," "," "," ","S","E","L","E","C","T",
          " ","\n"," "," "," "," "," "," "," "," "," "," "," "," "," "," "," "," "," "," "," "," ","w",
          "m","o","_","i","d",","," ","\n"," "," "," "," "," "," "," "," "," "," "," "," "," "," "," ",
          " "," "," "," "," ","c","y","c","l","e","_","n","u","m","b","e","r",","," ","\n"," "," "," ",
          " "," "," "," "," "," "," "," "," "," "," "," "," "," "," "," "," ","p","r","o","f","i","l","e",
          "_","d","a","t","e",",","\n"," "," "," "," "," "," "," "," "," "," "," "," "," "," "," "," ",
          " "," "," "," ","l","a","t","i","t","u","d","e",",","\n"," "," "," "," "," "," "," "," "," ",
          " "," "," "," "," "," "," "," "," "," "," ","l","o","n","g","i","t","u","d","e",",","\n"," ",
          " "," "," "," "," "," "," "," "," "," "," "," "," "," "," "," "," "," "," ","p","r","e","s","s",
          "u","r","e","_","d","b","a","r",",","\n"," "," "," "," "," "," "," "," "," "," "," "," "," ",
          " "," "," "," "," "," "," ","t","e","m","p","e","r","a","t","u","r","e","_","c","e","l","s","i",
          "u","s",",","\n"," "," "," "," "," "," "," "," "," "," "," "," "," "," "," "," "," "," "," ",
          " ","s","a","l","i","n","i","t","y","_","p","s","u",",","\n"," "," "," "," "," "," "," "," ",
          " "," "," "," "," "," "," "," "," "," "," "," ","d","o","x","y","_","m","i","c","r","o","m","o",
          "l","_","p","e","r","_","k","g",",","\n"," "," "," "," "," "," "," "," "," "," "," "," "," ",
          " "," "," "," "," "," "," ","c","h","l","a","_","m","i","c","r","o","g","r","a","m","_","p","e",
          "r","_","l",",","\n"," "," "," "," "," "," "," "," "," "," "," "," "," "," "," "," "," "," ",
          " "," ","n","i","t","r","a","t","e","_","m","i","c","r","o","m","o","l","_","p","e","r","_","k",
          "g",",","\n"," "," "," "," "," "," "," "," "," "," "," "," "," "," "," "," "," "," "," "," ",
          "f","l","o","a","t","_","c","a","t","e","g","o","r","y","\n"," "," "," "," "," "," "," "," ",
          " "," "," "," "," "," "," "," ","F","R","O","M"," ","p","u","b","l","i","c",".","a","r","g","o",
          "_","p","r","o","f","i","l","e","s"," ","\n"," "," "," "," "," "," "," "," "," "," "," "," ",
          " "," "," "," ","W","H","E","R","E"," ","f","l","o","a","t","_","c","a","t","e","g","o","r","y",
          " ","="," ","'","B","G","C","'","\n"," "," "," "," "," "," "," "," "," "," "," "," "," "," ",
          " "," "," "," "," "," ","A","N","D"," ","a","r","r","a","y","_","l","e","n","g","t","h","(","p",
          "r","e","s","s","u","r","e","_","d","b","a","r",","," ","1",")"," ",">"," ","0","\n"," "," ",
          " "," "," "," "," "," "," "," "," "," "," "," "," "," "," "," "," "," ","A","N","D"," ","(",
          "\n"," "," "," "," "," "," "," "," "," "," "," "," "," "," "," "," "," "," "," "," "," "," ",
          " "," ","a","r","r","a","y","_","l","e","n","g","t","h","(","c","h","l","a","_","m","i","c","r",
          "o","g","r","a","m","_","p","e","r","_","l",","," ","1",")"," ",">"," ","0"," ","\n"," "," ",
          " "," "," "," "," "," "," "," "," "," "," "," "," "," "," "," "," "," "," "," "," "," ","O","R",
          " ","a","r","r","a","y","_","l","e","n","g","t","h","(","n","i","t","r","a","t","e","_","m","i",
          "c","r","o","m","o","l","_","p","e","r","_","k","g",","," ","1",")"," ",">"," ","0","\n"," ",
          " "," "," "," "," "," "," "," "," "," "," "," "," "," "," "," "," "," "," "," "," "," "," ","O",
          "R"," ","a","r","r","a","y","_","l","e","n","g","t","h","(","d","o","x","y","_","m","i","c","r",
          "o","m","o","l","_","p","e","r","_","k","g",","," ","1",")"," ",">"," ","0","\n"," "," "," ",
          " "," "," "," "," "," "," "," "," "," "," "," "," "," "," "," "," ",")","\n"," "," "," "," ",
          " "," "," "," "," "," "," "," "," "," "," "," "," "," "," "," ","A","N","D"," ">>,
    mid  |-> <<"\n"," "," "," "," "," "," "," "," "," "," "," "," "," "," "," "," ","O","R","D","E","R"," ",
          "B","Y"," ","p","r","o","f","i","l","e","_","d","a","t","e"," ","D","E","S","C","\n"," "," ",
          " "," "," "," "," "," "," "," "," "," "," "," "," "," ","L","I","M","I","T"," ">>,
    post |-> <<"\n"," "," "," "," "," "," "," "," "," "," "," "," ">> ]

template_float_metadata ==
  [ pre  |-> <<"\n"," "," "," "," "," "," "," "," "," "," "," "," "," "," "," "," ","S","E","L","E","C","T",
          " ","f",".","*",","," ","C","O","U","N","T","(","p",".","p","r","o","f","i","l","e","_","i","d",
          ")"," ","a","s"," ","p","r","o","f","i","l","e","_","c","o","u","n","t"," ","\n"," "," "," ",
          " "," "," "," "," "," "," "," "," "," "," "," "," ","F","R","O","M"," ","p","u","b","l","i","c",
          ".","a","r","g","o","_","f","l","o","a","t","s"," ","f"," ","\n"," "," "," "," "," "," "," ",
          " "," "," "," "," "," "," "," "," ","L","E","F","T"," ","J","O","I","N"," ","p","u","b","l","i",
          "c",".","a","r","g","o","_","p","r","o","f","i","l","e","s"," ","p"," ","O","N"," ","f",".","w",
          "m","o","_","i","d"," ","="," ","p",".","w","m","o","_","i","d"," ","\n"," "," "," "," "," ",
          " "," "," "," "," "," "," "," "," "," "," ","W","H","E","R","E"," ">>,
    mid  |-> <<" ","\n"," "," "," "," "," "," "," "," "," "," "," "," "," "," "," "," ","G","R","O","U","P"," ","B","Y"," ","f",".","w","m","o","_","i","d"," ","\n"," "," "," "," "," "," "," "," "," "," "," "," "," "," "," "," ","L","I","M","I","T"," ">>,
    post |-> <<"\n"," "," "," "," "," "," "," "," "," "," "," "," ">> ]

template_trajectory ==
  [ pre  |-> <<"\n"," "," "," "," "," "," "," "," "," "," "," "," "," "," "," "," ","S","E","L","E","C","T",
          " ","\n"," "," "," "," "," "," "," "," "," "," "," "," "," "," "," "," "," "," "," "," ","w",
          "m","o","_","i","d",",","\n"," "," "," "," "," "," "," "," "," "," "," "," "," "," "," "," ",
          " "," "," "," ","c","y","c","l","e","_","n","u","m","b","e","r",",","\n"," "," "," "," "," ",
          " "," "," "," "," "," "," "," "," "," "," "," "," "," "," ","p","r","o","f","i","l","e","_","d",
          "a","t","e",",","\n"," "," "," "," "," "," "," "," "," "," "," "," "," "," "," "," "," "," ",
          " "," ","l","a","t","i","t","u","d","e",",","\n"," "," "," "," "," "," "," "," "," "," "," ",
          " "," "," "," "," "," "," "," "," ","l","o","n","g","i","t","u","d","e",",","\n"," "," "," ",
          " "," "," "," "," "," "," "," "," "," "," "," "," "," "," "," "," ","f","l","o","a","t","_","c",
          "a","t","e","g","o","r","y","\n"," "," "," "," "," "," "," "," "," "," "," "," "," "," "," ",
          " ","F","R","O","M"," ","p","u","b","l","i","c",".","a","r","g","o","_","p","r","o","f","i","l",
          "e","s","\n"," "," "," "," "," "," "," "," "," "," "," "," "," "," "," "," ","W","H","E","R",
          "E"," ">>,
    mid  |-> <<"\n"," "," "," "," "," "," "," "," "," "," "," "," "," "," "," "," ","O","R","D","E","R"," ",
          "B","Y"," ","w","m","o","_","i","d",","," ","p","r","o","f","i","l","e","_","d","a","t","e",
          "\n"," "," "," "," "," "," "," "," "," "," "," "," "," "," "," "," ","L","I","M","I","T"," ">>,
    post |-> <<"\n"," "," "," "," "," "," "," "," "," "," "," "," ">> ]

sql_templates ==
  [ basic_floats         |-> template_basic_floats,
    temperature_profiles |-> template_temperature_profiles,
    salinity_profiles    |-> template_salinity_profiles,
    bgc_profiles         |-> template_bgc_profiles,
    float_metadata       |-> template_float_metadata,
    trajectory           |-> template_trajectory ]

\* template.format(conditions=..., limit=...)
FormatTemplate(t, conditions, limit) ==
  t.pre \o conditions \o t.mid \o IntToText(limit) \o t.post

\* " AND ".join(conditions)
RECURSIVE JoinAnd(_)
JoinAnd(conds) ==
  IF Len(conds) = 0 THEN <<>>
  ELSE IF Len(conds) = 1 THEN conds[1]
  ELSE conds[1] \o <<" ","A","N","D"," ">> \o JoinAnd(Tail(conds))

\* the bounding-box condition of a configured region
region_condition(region) ==
  LET c == REGIONS[region]
  IN  <<"l","a","t","i","t","u","d","e"," ","B","E","T","W","E","E","N"," ">> \o IntToText(c.lat_min) \o <<" ","A","N","D"," ">> \o IntToText(c.lat_max)
        \o <<" ","A","N","D"," ","l","o","n","g","i","t","u","d","e"," ","B","E","T","W","E","E","N"," ">> \o IntToText(c.lon_min)
        \o <<" ","A","N","D"," ">> \o IntToText(c.lon_max)

\* _build_time_condition: NoText stands for None
build_time_condition(timeframe, now_day) ==
  IF timeframe = "last_month"
    THEN <<"p","r","o","f","i","l","e","_","d","a","t","e"," ",">","="," ","'">> \o DateText(now_day - 30) \o <<"'">>
  ELSE IF timeframe = "last_6_months"
    THEN <<"p","r","o","f","i","l","e","_","d","a","t","e"," ",">","="," ","'">> \o DateText(now_day - 180) \o <<"'">>
  ELSE IF timeframe = "last_year"
    THEN <<"p","r","o","f","i","l","e","_","d","a","t","e"," ",">","="," ","'">> \o DateText(now_day - 365) \o <<"'">>
  ELSE NoText

region_conditions(intent) ==
  IF intent.region # NoValue THEN << region_condition(intent.region) >> ELSE <<>>

float_type_conditions(intent) ==
  IF intent.float_type = "BGC" THEN << <<"f","l","o","a","t","_","c","a","t","e","g","o","r","y"," ","="," ","'","B","G","C","'">> >>
  ELSE IF intent.float_type = "Core" THEN << <<"f","l","o","a","t","_","c","a","t","e","g","o","r","y"," ","="," ","'","C","o","r","e","'">> >>
  ELSE <<>>

time_conditions(intent, now_day) ==
  IF intent.timeframe # NoValue /\ build_time_condition(intent.timeframe, now_day) # NoText
    THEN << build_time_condition(intent.timeframe, now_day) >>
    ELSE <<>>

\* _get_viz_suggestions: list(set(suggestions)), as a set
get_viz_suggestions(intent) ==
  LET byType ==
        IF intent.query_type = "profile" THEN {"profiles", "map", "table"}
        ELSE IF intent.query_type \in {"geographic", "trajectory"} THEN {"map", "trajectory"}
        ELSE IF intent.query_type = "comparative" THEN {"profiles", "comparison", "statistics"}
        ELSE IF intent.query_type = "time_series" THEN {"time_series", "trend_analysis"}
        ELSE IF intent.query_type = "statistical" THEN {"statistics", "histogram"}
        ELSE {}
      ts  == IF "temperature" \in intent.parameters /\ "salinity" \in intent.parameters
               THEN {"ts_diagram"} ELSE {}
      bgc == IF intent.float_type = "BGC" THEN {"bgc_profiles"} ELSE {}
      suggestions == byType \cup ts \cup bgc
  IN  IF suggestions = {} THEN {"map", "table"} ELSE suggestions

BgcParameters == {"oxygen", "chlorophyll", "nitrate"}

\* _generate_profile_query
generate_profile_query(intent, user_query, now_day) ==
  LET conditions == << <<"1","=","1">> >> \o region_conditions(intent) \o time_conditions(intent, now_day)
      template_key ==
        IF "salinity" \in intent.parameters /\ Contains(Lower(user_query), <<"p","r","o","f","i","l","e">>)
          THEN "salinity_profiles"
        ELSE IF "chlorophyll" \in intent.parameters \/ "nitrate" \in intent.parameters
          THEN "bgc_profiles"
        ELSE IF intent.float_type = "BGC"
          THEN "bgc_profiles"
        ELSE "temperature_profiles"
      sql == FormatTemplate(sql_templates[template_key], JoinAnd(conditions), 100)
  IN  [ success     |-> TRUE,
        sql_query   |-> Strip(sql),
        explanation |-> << "Retrieving profile data", intent.parameters >>,
        confidence  |-> 90,
        query_type  |-> "profile",
        suggested_visualizations |-> {"profiles", "map", "table"} ]

\* the template key chosen by _generate_template_fallback
fallback_template_key(intent) ==
  IF intent.query_type = "profile" \/ "temperature" \in intent.parameters
    THEN "temperature_profiles"
  ELSE IF intent.query_type = "trajectory"
    THEN "trajectory"
  ELSE IF intent.float_type = "BGC" \/ intent.parameters \cap BgcParameters # {}
    THEN "bgc_data"
  ELSE "basic_floats"

\* _generate_template_fallback; a key missing from sql_templates is the
\* KeyError its except branch turns into a failure value
generate_template_fallback(intent, user_query, now_day) ==
  LET template_key == fallback_template_key(intent)
      conditions == << <<"1","=","1">> >> \o region_conditions(intent)
                      \o float_type_conditions(intent) \o time_conditions(intent, now_day)
      limit == IF ~intent.statistics THEN 100 ELSE 1000
  IN  IF template_key \in DOMAIN sql_templates
        THEN [ success     |-> TRUE,
               sql_query   |-> Strip(FormatTemplate(sql_templates[template_key],
                                                    JoinAnd(conditions), limit)),
               explanation |-> << "Template-based query", intent.query_type >>,
               confidence  |-> 70,
               query_type  |-> intent.query_type,
               suggested_visualizations |-> get_viz_suggestions(intent) ]
        ELSE [ success     |-> FALSE,
               error       |-> << "Template fallback failed", template_key >>,
               sql_query   |-> NoText,
               explanation |-> << "Template generation failed" >>,
               confidence  |-> 0 ]

(***************************************************************************)
(* SQL Synthesizer: _validate_sql                                          *)
(***************************************************************************)
dangerous_keywords ==
  << <<"D","R","O","P">>, <<"D","E","L","E","T","E">>, <<"T","R","U","N","C","A","T","E">>, <<"A","L","T","E","R">>, <<"C","R","E","A","T","E">>, <<"I","N","S","E","R","T">>, <<"U","P","D","A","T","E">> >>

valid_tables ==
  << <<"p","u","b","l","i","c",".","a","r","g","o","_","f","l","o","a","t","s">>, <<"p","u","b","l","i","c",".","a","r","g","o","_","p","r","o","f","i","l","e","s">>, <<"a","r","g","o","_","f","l","o","a","t","s">>, <<"a","r","g","o","_","p","r","o","f","i","l","e","s">> >>

\* faulty variant: the dangerous-keyword test is skipped
ValidateSqlNoKeywordCheck(sql_query) ==
  IF sql_query = NoText \/ Len(sql_query) = 0 THEN FALSE
  ELSE /\ Contains(Upper(sql_query), <<"S","E","L","E","C","T">>)
       /\ Contains(Upper(sql_query), <<"F","R","O","M">>)
       /\ ContainsAny(sql_query, valid_tables)

\* validation_result["valid"]
validate_sql(sql_query) ==
  IF sql_query = NoText \/ Len(sql_query) = 0 THEN FALSE
  ELSE LET sql_upper == Upper(sql_query)
       IN  /\ Contains(sql_upper, <<"S","E","L","E","C","T">>)
           /\ Contains(sql_upper, <<"F","R","O","M">>)
           /\ ~ContainsAny(sql_upper, dangerous_keywords)
           /\ ContainsAny(sql_query, valid_tables)

(***************************************************************************)
(* SQL Synthesizer: _enhance_sql_for_profiles                              *)
(* re.search(r'SELECT\s+(.*?)\s+FROM', sql, IGNORECASE | DOTALL)           *)
(***************************************************************************)
\* the word (given in upper case) stands at positions p..p+Len(word)-1
WordAtCI(s, word, p) ==
  /\ p >= 1
  /\ p + Len(word) - 1 <= Len(s)
  /\ \A k \in 1..Len(word) : UpperChar(s[p + k - 1]) = word[k]

AllSpace(s, from, to) == \A j \in from..to : IsSpace(s[j])

\* ends h of group 1 when it starts at g: s[h..k] is white space, FROM at k+1
GroupEnds(s, g) ==
  { h \in g..Len(s) :
      \E k \in h..Len(s) : AllSpace(s, h, k) /\ WordAtCI(s, <<"F","R","O","M">>, k + 1) }

\* starts g of group 1 for SELECT at i: s[i+6..g-1] is white space, not empty
GroupStarts(s, i) ==
  { g \in (i + 7)..(Len(s) + 1) : AllSpace(s, i + 6, g - 1) /\ GroupEnds(s, g) # {} }

SelectStarts(s) ==
  { i \in 1..Len(s) : WordAtCI(s, <<"S","E","L","E","C","T">>, i) /\ GroupStarts(s, i) # {} }

Min(S) == CHOOSE x \in S : \A y \in S : x <= y
Max(S) == CHOOSE x \in S : \A y \in S : x >= y

\* the span [g, h) of group 1 of the first match: leftmost SELECT, the
\* greedy \s+ as long as possible, the lazy group as short as possible
SelectFieldsSpan(s) ==
  LET i == Min(SelectStarts(s))
      g == Max(GroupStarts(s, i))
      h == Min(GroupEnds(s, g))
  IN  [start |-> g, end |-> h]

enhance_sql_for_profiles(sql_query, intent) ==
  LET sql_upper == Upper(sql_query)
  IN  IF /\ \/ intent.query_type = "profile"
            \/ Contains(sql_upper, <<"T","E","M","P","E","R","A","T","U","R","E">>)
            \/ Contains(sql_upper, <<"S","A","L","I","N","I","T","Y">>)
         /\ ~Contains(sql_upper, <<"P","R","E","S","S","U","R","E","_","D","B","A","R">>)
         /\ SelectStarts(sql_query) # {}
        THEN LET span == SelectFieldsSpan(sql_query)
                 current_fields == SubSeq(sql_query, span.start, span.end - 1)
                 with_pressure ==
                   IF ~Contains(Lower(current_fields), <<"p","r","e","s","s","u","r","e","_","d","b","a","r">>)
                     THEN current_fields \o <<","," ","p","r","e","s","s","u","r","e","_","d","b","a","r">>
                     ELSE current_fields
                 new_fields ==
                   IF /\ ~Contains(Lower(current_fields), <<"s","a","l","i","n","i","t","y","_","p","s","u">>)
                      /\ "salinity" \in intent.parameters
                     THEN with_pressure \o <<","," ","s","a","l","i","n","i","t","y","_","p","s","u">>
                     ELSE with_pressure
             IN  SubSeq(sql_query, 1, span.start - 1) \o new_fields
                   \o SubSeq(sql_query, span.end, Len(sql_query))
        ELSE sql_query

\* _enhance_response_with_viz on the model's parsed response
enhance_response_with_viz(response, intent) ==
  [ success     |-> TRUE,
    sql_query   |-> response.sql_query,
    explanation |-> response.explanation,
    confidence  |-> response.confidence,
    query_type  |-> IF "query_type" \in DOMAIN response
                      THEN response.query_type ELSE intent.query_type,
    suggested_visualizations |->
      IF "suggested_visualizations" \in DOMAIN response
           /\ response.suggested_visualizations # {}
        THEN response.suggested_visualizations
        ELSE get_viz_suggestions(intent) ]

\* generate_query's profile test: intent or one of four words in the query
is_profile_request(intent, user_query) ==
  \/ intent.query_type = "profile"
  \/ ContainsAny(Lower(user_query),
                 << <<"p","r","o","f","i","l","e">>, <<"t","e","m","p","e","r","a","t","u","r","e">>, <<"v","e","r","t","i","c","a","l">>, <<"d","e","p","t","h">> >>)

\* generate_query, steps after the model client returned llm_response
result_from_llm(llm_response, intent, user_query, now_day) ==
  IF llm_response.success
    THEN IF validate_sql(llm_response.sql_query)
           THEN enhance_response_with_viz(
                  [llm_response EXCEPT
                     !.sql_query = enhance_sql_for_profiles(llm_response.sql_query, intent)],
                  intent)
           ELSE generate_template_fallback(intent, user_query, now_day)
    ELSE generate_template_fallback(intent, user_query, now_day)

\* dict.get(key, default)
Get(r, key, default) == IF key \in DOMAIN r THEN r[key] ELSE default

\* faulty variant: result_data is returned as it is, without the defaults
SqlResponseOfResultData(result_data, intent, user_query) == result_data

\* the value generate_query returns for result_data
sql_response_of(result_data, intent, user_query) ==
  [ success     |-> Get(result_data, "success", FALSE),
    sql_query   |-> Get(result_data, "sql_query", NoText),
    query_type  |-> Get(result_data, "query_type", intent.query_type),
    query_text  |-> user_query,
    suggested_visualizations |-> Get(result_data, "suggested_visualizations", {}),
    explanation |-> Get(result_data, "explanation", << "No explanation available." >>),
    confidence  |-> Get(result_data, "confidence", 80) ]

(***************************************************************************)
(* Language-model client: GroqLLMManager                                   *)
(***************************************************************************)
\* number of configured API keys (clients) of the model
NumKeys == 2

Keys == 0..(NumKeys - 1)

rate_limit_per_minute == 30

max_retries == 3

\* _get_next_available_client returned None
NoClient == -1

\* a rotation that hands a key out while its counter is at the limit
RECURSIVE NextAvailableClientAtLimit(_, _, _, _)
NextAvailableClientAtLimit(attempts, requests, index, expired) ==
  IF attempts >= NumKeys
    THEN [client |-> NoClient, requests |-> requests, index |-> index]
    ELSE LET reset == IF index \in expired
                        THEN [requests EXCEPT ![index] = 0]
                        ELSE requests
         IN  IF reset[index] <= rate_limit_per_minute
               THEN [ client   |-> index,
                      requests |-> [reset EXCEPT ![index] = reset[index] + 1],
                      index    |-> index ]
               ELSE NextAvailableClientAtLimit(attempts + 1, reset,
                                               (index + 1) % NumKeys, expired \ {index})

\* the loop of _get_next_available_client; expired is the set of keys whose
\* last_reset lies more than a minute back when the call is made
RECURSIVE next_available_client(_, _, _, _)
next_available_client(attempts, requests, index, expired) ==
  IF attempts >= NumKeys
    THEN [client |-> NoClient, requests |-> requests, index |-> index]
    ELSE LET reset == IF index \in expired
                        THEN [requests EXCEPT ![index] = 0]
                        ELSE requests
         IN  IF reset[index] < rate_limit_per_minute
               THEN [ client   |-> index,
                      requests |-> [reset EXCEPT ![index] = reset[index] + 1],
                      index    |-> index ]
               ELSE next_available_client(attempts + 1, reset,
                                          (index + 1) % NumKeys, expired \ {index})

get_next_available_client(requests, index, expired) ==
  next_available_client(0, requests, index, expired)

(***************************************************************************)
(* What the model can answer to generate_sql_query                         *)
(***************************************************************************)
LlmSqlTexts ==
  { <<"S","E","L","E","C","T"," ","w","m","o","_","i","d"," ","F","R","O","M"," ","p","u","b","l","i","c",".","a","r","g","o","_","p","r","o","f","i","l","e","s"," ","L","I","M","I","T"," ","1","0","0">>,
    <<"s","e","l","e","c","t"," ","*"," ","f","r","o","m"," ","a","r","g","o","_","f","l","o","a","t","s">>,
    <<"S","E","L","E","C","T"," ","*"," ","F","R","O","M"," ","a","r","g","o","_","f","l","o","a","t","s",";"," ","D","E","L","E","T","E"," ","F","R","O","M"," ","a","r","g","o","_","f","l","o","a","t","s">>,
    <<"S","E","L","E","C","T"," ","u","p","d","a","t","e","d","_","a","t"," ","F","R","O","M"," ","a","r","g","o","_","p","r","o","f","i","l","e","s">>,
    <<"D","R","O","P"," ","T","A","B","L","E"," ","a","r","g","o","_","f","l","o","a","t","s">>,
    <<"S","E","L","E","C","T"," ","1">>,
    <<"S","E","L","E","C","T"," ","*"," ","F","R","O","M"," ","o","c","e","a","n","_","d","a","t","a">>,
    <<"S","e","l","e","c","t"," "," ","s","a","l","i","n","i","t","y","_","p","s","u","\n"," ","f","r","o","m"," ","a","r","g","o","_","p","r","o","f","i","l","e","s">>,
    <<>>,
    NoText }

\* parsed JSON objects that carry the three required fields
LlmSqlBodies ==
  { [sql_query |-> t, explanation |-> << "model" >>, confidence |-> 95] : t \in LlmSqlTexts }
  \cup
  { [ sql_query |-> <<"S","E","L","E","C","T"," ","w","m","o","_","i","d"," ","F","R","O","M"," ","p","u","b","l","i","c",".","a","r","g","o","_","p","r","o","f","i","l","e","s"," ","L","I","M","I","T"," ","1","0","0">>,
      explanation |-> << "model" >>, confidence |-> 95,
      query_type |-> "geographic_temporal",
      suggested_visualizations |-> {"map", "profile", "time_series"} ] }

\* client.invoke + _parse_response: the call raises, the content is not
\* JSON, the JSON lacks a required field, or a body is parsed
LlmSqlOutcomes ==
  { [kind |-> "raises"], [kind |-> "not_json"], [kind |-> "missing_field"] }
  \cup { [kind |-> "json", body |-> b] : b \in LlmSqlBodies }

\* the failure values of generate_sql_query
sql_rate_limited ==
  [ success |-> FALSE,
    error |-> << "All API keys rate limited. Please try again later." >>,
    sql_query |-> NoText, explanation |-> << "Rate limit exceeded" >>, confidence |-> 0 ]

sql_failed_after_retries(cause) ==
  [ success |-> FALSE,
    error |-> << "Failed after 3 attempts", cause >>,
    sql_query |-> NoText, explanation |-> << "LLM generation failed" >>, confidence |-> 0 ]

\* response_json["success"] = True
sql_parsed(body) == [success |-> TRUE] @@ body

(***************************************************************************)
(* generate_tool_analysis: the fallback classifier and its regexes         *)
(***************************************************************************)
\* longest tool plan the model's answer can hold
MaxTools == 2

IsDigit(c) == \E i \in 1..Len(DigitChars) : DigitChars[i] = c

DigitValue(c) == (CHOOSE i \in 1..Len(DigitChars) : DigitChars[i] = c) - 1

\* int(text) for a text of digits
RECURSIVE TextToNat(_)
TextToNat(t) ==
  IF Len(t) = 0 THEN 0
  ELSE 10 * TextToNat(SubSeq(t, 1, Len(t) - 1)) + DigitValue(t[Len(t)])

\* end of the longest run of characters satisfying the test that starts at p
RECURSIVE DigitRunEnd(_, _)
DigitRunEnd(s, p) ==
  IF p <= Len(s) /\ IsDigit(s[p]) THEN DigitRunEnd(s, p + 1) ELSE p - 1

RECURSIVE SpaceRunEnd(_, _)
SpaceRunEnd(s, p) ==
  IF p <= Len(s) /\ IsSpace(s[p]) THEN SpaceRunEnd(s, p + 1) ELSE p - 1

\* where the group (\d+\.?\d*) starts for stem + 'e?' + \s* matched at p, or 0
NumberStartAfter(s, stem, p) ==
  LET afterStem == p + Len(stem) + 1
      afterE == IF afterStem <= Len(s) /\ s[afterStem] = "e"
                  THEN afterStem + 1 ELSE afterStem
      start == SpaceRunEnd(s, afterE) + 1
  IN  IF MatchesAt(s, stem, p) /\ start <= Len(s) /\ IsDigit(s[start]) THEN start ELSE 0

\* trailing zeros of a fraction do not change the number
RECURSIVE StripZeros(_)
StripZeros(t) ==
  IF Len(t) > 0 /\ t[Len(t)] = "0" THEN StripZeros(SubSeq(t, 1, Len(t) - 1)) ELSE t

\* float(m.group(1)): the whole part and the fraction digits of the match
DecimalAt(s, start) ==
  LET wholeEnd == DigitRunEnd(s, start)
      hasDot   == wholeEnd + 1 <= Len(s) /\ s[wholeEnd + 1] = "."
      fracEnd  == IF hasDot THEN DigitRunEnd(s, wholeEnd + 2) ELSE wholeEnd
  IN  [ whole |-> TextToNat(SubSeq(s, start, wholeEnd)),
        frac  |-> IF hasDot THEN StripZeros(SubSeq(s, wholeEnd + 2, fracEnd)) ELSE <<>> ]

\* re.search(stem + r'e?\s*(\d+\.?\d*)', s), or the default
ExtractDecimal(s, stem, default) ==
  LET hits == { p \in 0..Len(s) : NumberStartAfter(s, stem, p) # 0 }
  IN  IF hits = {} THEN default
      ELSE DecimalAt(s, NumberStartAfter(s, stem, Min(hits)))

\* re.search(r'\d{7}', s), converted by int(), or the default
ExtractWmoId(s, default) ==
  LET hits == { p \in 1..Len(s) : p + 6 <= Len(s) /\ \A k \in 0..6 : IsDigit(s[p + k]) }
  IN  IF hits = {} THEN default
      ELSE TextToNat(SubSeq(s, Min(hits), Min(hits) + 6))

\* the three plans and the failure value of the fallback classifier
fallback_nearest(query_lower) ==
  [ success |-> TRUE, query_type |-> "spatial",
    tool_calls |-> <<
      [ name |-> "find_nearest_floats",
        parameters |->
          [ latitude  |-> ExtractDecimal(query_lower, <<"l","a","t","i","t","u","d">>, [whole |-> 15, frac |-> <<>>]),
            longitude |-> ExtractDecimal(query_lower, <<"l","o","n","g","i","t","u","d">>, [whole |-> 70, frac |-> <<>>]),
            limit |-> 5 ] ] >>,
    sql_query |-> <<"S","E","L","E","C","T"," ","*"," ","F","R","O","M"," ","a","r","g","o","_","p","r","o","f","i","l","e","s"," ","L","I","M","I","T"," ","1","0">>,
    explanation |-> << "Finding nearest floats using spatial search" >>,
    confidence |-> 70 ]

fallback_compare ==
  [ success |-> TRUE, query_type |-> "comparative",
    tool_calls |-> <<
      [ name |-> "get_regional_stats",
        parameters |-> [region_name |-> "arabian_sea", parameter |-> "oxygen"] ],
      [ name |-> "get_regional_stats",
        parameters |-> [region_name |-> "bay_of_bengal", parameter |-> "oxygen"] ] >>,
    sql_query |-> <<"S","E","L","E","C","T"," ","*"," ","F","R","O","M"," ","a","r","g","o","_","p","r","o","f","i",
          "l","e","s"," ","W","H","E","R","E"," ","f","l","o","a","t","_","c","a","t","e","g","o","r","y",
          "=","'","B","G","C","'"," ","L","I","M","I","T"," ","1","0","0">>,
    explanation |-> << "Comparing oxygen levels between regions" >>,
    confidence |-> 75 ]

fallback_trajectory(query_lower) ==
  [ success |-> TRUE, query_type |-> "trajectory",
    tool_calls |-> <<
      [ name |-> "get_float_trajectory",
        parameters |-> [ wmo_id |-> ExtractWmoId(query_lower, 2902238),
                         days_back |-> 60 ] ] >>,
    sql_query |-> <<"S","E","L","E","C","T"," ","*"," ","F","R","O","M"," ","a","r","g","o","_","p","r","o","f","i",
          "l","e","s"," ","W","H","E","R","E"," ","w","m","o","_","i","d","=","2","9","0","2","2","3","8",
          " ","O","R","D","E","R"," ","B","Y"," ","p","r","o","f","i","l","e","_","d","a","t","e">>,
    explanation |-> << "Retrieving float trajectory" >>,
    confidence |-> 80 ]

fallback_none ==
  [ success |-> FALSE,
    error |-> << "Could not parse LLM response after 3 attempts" >>,
    tool_calls |-> <<>>,
    sql_query |-> <<>>,
    explanation |-> << "Failed to analyze query" >>,
    confidence |-> 0 ]

\* faulty variant: the trajectory pattern is tried before the comparison pattern
FallbackToolAnalysisTrajectoryFirst(user_query) ==
  LET query_lower == Lower(user_query)
  IN  IF Contains(query_lower, <<"n","e","a","r","e","s","t">>) \/ Contains(query_lower, <<"c","l","o","s","e","s","t">>)
        THEN fallback_nearest(query_lower)
      ELSE IF Contains(query_lower, <<"t","r","a","j","e","c","t","o","r","y">>)
        THEN fallback_trajectory(query_lower)
      ELSE IF /\ Contains(query_lower, <<"c","o","m","p","a","r","e">>)
              /\ (Contains(query_lower, <<"o","x","y","g","e","n">>) \/ Contains(query_lower, <<"b","g","c">>))
        THEN fallback_compare
      ELSE fallback_none

\* the value built in the JSONDecodeError branch of the last attempt
fallback_tool_analysis(user_query) ==
  LET query_lower == Lower(user_query)
  IN  IF Contains(query_lower, <<"n","e","a","r","e","s","t">>) \/ Contains(query_lower, <<"c","l","o","s","e","s","t">>)
        THEN fallback_nearest(query_lower)
      ELSE IF /\ Contains(query_lower, <<"c","o","m","p","a","r","e">>)
              /\ (Contains(query_lower, <<"o","x","y","g","e","n">>) \/ Contains(query_lower, <<"b","g","c">>))
        THEN fallback_compare
      ELSE IF Contains(query_lower, <<"t","r","a","j","e","c","t","o","r","y">>)
        THEN fallback_trajectory(query_lower)
      ELSE fallback_none

\* the failure value of the `except Exception` branch of the last attempt
tool_analysis_error(cause) ==
  [ success |-> FALSE, error |-> << cause >>, tool_calls |-> <<>>, sql_query |-> <<>>,
    explanation |-> << "Error in tool analysis" >>, confidence |-> 0 ]

\* the value returned when the loop ends without a return
tool_analysis_no_response ==
  [ success |-> FALSE, error |-> << "Failed to get LLM response" >>, tool_calls |-> <<>>,
    sql_query |-> <<>>,
    explanation |-> << "No response from LLM" >>, confidence |-> 0 ]

\* parsed['success'] and parsed['tool_calls'] get their defaults
tool_analysis_parsed(body) ==
  body @@ [success |-> TRUE, tool_calls |-> <<>>]

(***************************************************************************)
(* What the model can answer to generate_tool_analysis                     *)
(***************************************************************************)
LlmToolCalls ==
  { [ name |-> "get_regional_stats",
      parameters |-> [region_name |-> "arabian_sea", parameter |-> "oxygen"] ],
    [ name |-> "get_float_trajectory",
      parameters |-> [wmo_id |-> 2902238, days_back |-> 60] ],
    [ name |-> "get_regional_stats", parameters |-> [region |-> "arabian_sea"] ],
    [ name |-> "plot_heatmap", parameters |-> [region_name |-> "arabian_sea"] ] }

LlmPlans == UNION { [1..k -> LlmToolCalls] : k \in 0..MaxTools }

LlmPlanBodies ==
  { [tool_calls |-> plan, sql_query |-> <<"S","E","L","E","C","T"," ","*"," ","F","R","O","M"," ","a","r","g","o","_","p","r","o","f","i","l","e","s">>] : plan \in LlmPlans }
  \cup
  { [ query_type |-> "general", explanation |-> << "model" >>, confidence |-> 90 ],
    [ success |-> FALSE, tool_calls |-> <<>>, explanation |-> << "model" >> ] }

\* client.invoke + json.loads: the call raises, the content is not JSON
\* (JSONDecodeError), the JSON is not an object (TypeError), or an object
LlmPlanOutcomes ==
  { [kind |-> "raises"], [kind |-> "not_json"], [kind |-> "non_object"] }
  \cup { [kind |-> "json", body |-> b] : b \in LlmPlanBodies }

(***************************************************************************)
(* Storage client as the core sees it                                      *)
(***************************************************************************)
\* what an RPC of the store can do: raise, or return data that is empty,
\* data whose formatted values are all numbers ("numeric"), or data in which
\* a value the formatting code uses is null or missing ("null")
StoreRpcOutcomes == {"raises", "empty", "numeric", "null"}

\* str(e) of the exception a failing RPC raises
StoreError == << "connection refused" >>

(***************************************************************************)
(* Tool Registry: MCPToolFactory._initialize_tools and the tool bodies     *)
(***************************************************************************)
\* keyword parameters of the tool functions: required, and accepted
ToolSignatures ==
  [ find_nearest_floats |->
      [ required |-> {"latitude", "longitude"},
        accepted |-> {"latitude", "longitude", "limit", "max_distance_km"} ],
    get_regional_stats |->
      [ required |-> {"region_name"},
        accepted |-> {"region_name", "parameter", "start_date", "end_date"} ],
    compare_profiles |->
      [ required |-> {"wmo_ids"},
        accepted |-> {"wmo_ids", "parameter"} ],
    get_float_trajectory |->
      [ required |-> {"wmo_id"},
        accepted |-> {"wmo_id", "days_back"} ],
    execute_validated_query |->
      [ required |-> {"sql_query", "query_type"},
        accepted |-> {"sql_query", "query_type", "max_results"} ] ]

RegisteredTools == DOMAIN ToolSignatures

\* tool_def.execute(**tool_params) binds without a TypeError
BindsTo(params, signature) ==
  /\ signature.required \subseteq DOMAIN params
  /\ DOMAIN params \subseteq signature.accepted

tool_failure(tool_name, error) ==
  [success |-> FALSE, tool_name |-> tool_name, error |-> error]

execute_nearest_floats(p, rpc) ==
  IF rpc = "raises" THEN tool_failure("find_nearest_floats", StoreError)
  ELSE [ success |-> TRUE, tool_name |-> "find_nearest_floats",
         floats |-> rpc,
         query_location |-> [lat |-> p.latitude, lon |-> p.longitude],
         search_radius_km |-> Get(p, "max_distance_km", 500) ]

execute_regional_stats(p, rpc) ==
  IF p.region_name \notin DOMAIN REGIONS
    THEN tool_failure("get_regional_stats", << "Unknown region", p.region_name >>)
  ELSE IF rpc = "raises" THEN tool_failure("get_regional_stats", StoreError)
  ELSE [ success |-> TRUE, tool_name |-> "get_regional_stats",
         region |-> p.region_name,
         statistics |-> rpc,
         parameter |-> Get(p, "parameter", "temperature") ]

execute_comparison(p, rpc) ==
  IF rpc \in {"raises", "null"} THEN tool_failure("compare_profiles", StoreError)
  ELSE [ success |-> TRUE, tool_name |-> "compare_profiles",
         profiles |-> rpc,
         parameter |-> Get(p, "parameter", "temperature") ]

execute_trajectory(p, rpc) ==
  IF rpc = "raises" THEN tool_failure("get_float_trajectory", StoreError)
  ELSE [ success |-> TRUE, tool_name |-> "get_float_trajectory",
         wmo_id |-> p.wmo_id,
         trajectory |-> rpc,
         days_back |-> Get(p, "days_back", 90) ]

execute_validated_query(p, rpc) ==
  IF rpc = "raises" THEN tool_failure("execute_validated_query", StoreError)
  ELSE [ success |-> TRUE, tool_name |-> "execute_validated_query",
         results |-> rpc,
         query_type |-> p.query_type,
         sql_query |-> p.sql_query ]

\* ArgoMCPClient._execute_tool: the entry one tool call contributes
execute_tool(tool_call, rpc) ==
  LET tool_name == tool_call.name
      p == tool_call.parameters
  IN  IF tool_name \notin RegisteredTools
        THEN tool_failure(tool_name, << "Unknown tool", tool_name >>)
      ELSE IF ~BindsTo(p, ToolSignatures[tool_name])
        THEN tool_failure(tool_name, << "TypeError" >>)
      ELSE IF tool_name = "find_nearest_floats" THEN execute_nearest_floats(p, rpc)
      ELSE IF tool_name = "get_regional_stats" THEN execute_regional_stats(p, rpc)
      ELSE IF tool_name = "compare_profiles" THEN execute_comparison(p, rpc)
      ELSE IF tool_name = "get_float_trajectory" THEN execute_trajectory(p, rpc)
      ELSE execute_validated_query(p, rpc)

(***************************************************************************)
(* Tool Orchestrator: _synthesize_response and its helpers                 *)
(***************************************************************************)
\* [r for r in tool_results if r.get("success")]
successful_results(tool_results) == SelectSeq(tool_results, LAMBDA r : r.success)

\* the formatting of this result raises (a null where a number is formatted)
FormattingRaises(r) ==
  \/ r.tool_name = "get_float_trajectory" /\ r.trajectory = "null"
  \/ r.tool_name = "get_regional_stats" /\ r.statistics = "null"
  \/ r.tool_name = "find_nearest_floats" /\ r.floats = "null"

\* one iteration of the loop of _process_tool_results_for_visualization
merge_tool_result(acc, r) ==
  IF r.tool_name = "get_float_trajectory"
    THEN LET comps == [display_components |->
                         acc.display_components \cup {"trajectory", "map", "table"}]
         IN  IF r.trajectory # "empty"
               THEN [ trajectory |-> [ wmo_id |-> r.wmo_id, path |-> r.trajectory,
                                       days_back |-> r.days_back ],
                      geospatial |-> [type |-> "trajectory", wmo_id |-> r.wmo_id],
                      table      |-> [of |-> "trajectory", wmo_id |-> r.wmo_id] ]
                    @@ comps @@ acc
               ELSE comps @@ acc
  ELSE IF r.tool_name = "get_regional_stats"
    THEN LET comps == [display_components |->
                         acc.display_components \cup {"statistics", "table"}]
             regions == IF "statistics" \in DOMAIN acc
                          THEN acc.statistics.regions ELSE << >>
             stats == [statistics |-> [regions |-> (r.region :> r.statistics) @@ regions]]
         IN  IF r.statistics # "empty"
               THEN [table |-> [of |-> "statistics", region |-> r.region]]
                    @@ stats @@ comps @@ acc
               ELSE stats @@ comps @@ acc
  ELSE IF r.tool_name = "find_nearest_floats"
    THEN LET comps == [display_components |-> acc.display_components \cup {"map", "table"}]
             geo == [geospatial |-> [ type |-> "points", features |-> r.floats,
                                      center |-> r.query_location ]]
         IN  IF r.floats # "empty"
               THEN [table |-> [of |-> "nearest_floats"]] @@ geo @@ comps @@ acc
               ELSE geo @@ comps @@ acc
  ELSE acc

RECURSIVE merge_tool_results(_, _)
merge_tool_results(results, acc) ==
  IF Len(results) = 0 THEN acc
  ELSE merge_tool_results(Tail(results), merge_tool_result(acc, Head(results)))

\* _process_tool_results_for_visualization
process_tool_results_for_visualization(results, query_type) ==
  [ query_type |-> query_type,
    execution_stats |-> [tools_executed |-> Len(results), execution_path |-> "mcp"] ]
  @@ merge_tool_results(results, [display_components |-> {}])

\* the part of the summary one result contributes, << >> when none
summary_part(r) ==
  IF r.tool_name = "get_float_trajectory"
    THEN IF r.trajectory # "empty"
           THEN << << "Retrieved trajectory for float", r.wmo_id >> >>
           ELSE << << "No trajectory data found for float", r.wmo_id >> >>
  ELSE IF r.tool_name = "get_regional_stats"
    THEN IF r.statistics # "empty"
           THEN << << "The average surface value in", r.region >> >>
           ELSE << >>
  ELSE IF r.tool_name = "find_nearest_floats"
    THEN IF r.floats # "empty" THEN << << "Found ARGO floats" >> >> ELSE << >>
  ELSE << >>

RECURSIVE summary_parts(_)
summary_parts(results) ==
  IF Len(results) = 0 THEN << >>
  ELSE summary_part(Head(results)) \o summary_parts(Tail(results))

\* _generate_summary_text
generate_summary_text(results) ==
  IF summary_parts(results) = << >>
    THEN << << "Data retrieved successfully." >> >>
    ELSE summary_parts(results)

\* the envelope of the except branch of process_query_with_tools
mcp_processing_error(cause) ==
  [ success |-> FALSE, error |-> << "MCP processing error", cause >>,
    execution_path |-> "mcp" ]

\* str(e) of the TypeError a null raises in a format specification
FormatError == << "unsupported format string passed to NoneType.__format__" >>

\* faulty variant: only the error of the last tool call is reported
AllToolsFailedLastErrorOnly(tool_results) ==
  [ success |-> FALSE,
    error |-> << "All tool executions failed" >>,
    tool_errors |-> IF tool_results = << >> THEN << >>
                    ELSE << tool_results[Len(tool_results)].error >>,
    execution_path |-> "mcp" ]

\* _synthesize_response: the envelope of `if not successful_results`
all_tools_failed(tool_results) ==
  [ success |-> FALSE,
    error |-> << "All tool executions failed" >>,
    tool_errors |-> [i \in 1..Len(tool_results) |-> tool_results[i].error],
    execution_path |-> "mcp" ]

\* an orchestrator that answers a plan without tool calls from the plan's
\* backup statement
SynthesizeResponseBackupSql(analysis, tool_results) ==
  LET successful == successful_results(tool_results)
  IN  IF Len(tool_results) = 0
        THEN [ raised |-> FALSE,
               value |-> [ success |-> TRUE, execution_path |-> "mcp",
                           sql_query |-> Get(analysis, "sql_query", NoText) ] ]
      ELSE IF Len(successful) = 0
        THEN [raised |-> FALSE, value |-> all_tools_failed(tool_results)]
      ELSE IF \E i \in 1..Len(successful) : FormattingRaises(successful[i])
        THEN [raised |-> TRUE, error |-> FormatError]
      ELSE [ raised |-> FALSE,
             value |-> [ success |-> TRUE, execution_path |-> "mcp",
                         data |-> process_tool_results_for_visualization(
                                    successful, Get(analysis, "query_type", "general")),
                         summary |-> generate_summary_text(successful),
                         tools_used |->
                           [i \in 1..Len(successful) |-> successful[i].tool_name],
                         raw_tool_results |-> successful,
                         sql_query |-> NoText,
                         explanation |-> Get(analysis, "explanation", NoText),
                         confidence |-> Get(analysis, "confidence", 85) ] ]

\* _synthesize_response: the envelope it returns, or the exception it raises
\* while the successful results are formatted
synthesize_response(analysis, tool_results) ==
  LET successful == successful_results(tool_results)
  IN  IF Len(successful) = 0
        THEN [raised |-> FALSE, value |-> all_tools_failed(tool_results)]
      ELSE IF \E i \in 1..Len(successful) : FormattingRaises(successful[i])
        THEN [raised |-> TRUE, error |-> FormatError]
      ELSE [ raised |-> FALSE,
             value |-> [ success |-> TRUE, execution_path |-> "mcp",
                         data |-> process_tool_results_for_visualization(
                                    successful, Get(analysis, "query_type", "general")),
                         summary |-> generate_summary_text(successful),
                         tools_used |->
                           [i \in 1..Len(successful) |-> successful[i].tool_name],
                         raw_tool_results |-> successful,
                         sql_query |-> NoText,
                         explanation |-> Get(analysis, "explanation", NoText),
                         confidence |-> Get(analysis, "confidence", 85) ] ]

\* faulty variant: the except branch is missing and the exception propagates
ProcessQueryWithToolsNoExcept(outcome) == outcome

\* the try/except of process_query_with_tools around the steps of the call
process_query_with_tools_except(outcome) ==
  IF outcome.raised
    THEN [raised |-> FALSE, value |-> mcp_processing_error(outcome.error)]
    ELSE outcome

(***************************************************************************)
(* Storage client: SupabaseClient.execute_query                            *)
(***************************************************************************)
\* what execute_safe_sql can do: raise, return no rows, rows the shaper can
\* process, or rows of an unexpected shape
SqlRpcOutcomes == {"raises", "no_rows", "rows", "odd_rows"}

\* what a table query of the alternative path yields; its own exceptions
\* are caught and give the empty list
AlternativeOutcomes == {"no_rows", "rows", "odd_rows"}

\* _execute_query_alternative can find a table to query
alternative_applies(sql_query) ==
  LET sql_upper == Upper(sql_query)
  IN  \/ Contains(sql_upper, <<"F","R","O","M"," ","P","U","B","L","I","C",".","A","R","G","O","_","P","R","O","F","I","L","E","S">>)
      \/ Contains(sql_upper, <<"F","R","O","M"," ","A","R","G","O","_","P","R","O","F","I","L","E","S">>)
      \/ Contains(sql_upper, <<"F","R","O","M"," ","P","U","B","L","I","C",".","A","R","G","O","_","F","L","O","A","T","S">>)
      \/ Contains(sql_upper, <<"F","R","O","M"," ","A","R","G","O","_","F","L","O","A","T","S">>)
      \/ Contains(sql_upper, <<"J","O","I","N">>)

\* execute_query: the rows it returns; it never raises
execute_query(sql_query, rpc, alternative) ==
  IF rpc # "raises" THEN [raised |-> FALSE, rows |-> rpc]
  ELSE IF alternative_applies(sql_query) THEN [raised |-> FALSE, rows |-> alternative]
  ELSE [raised |-> FALSE, rows |-> "no_rows"]

(***************************************************************************)
(* Result Shaper: ArgoDataProcessor.process_query_results                  *)
(***************************************************************************)
shaping_strategy(query_metadata) ==
  LET query_type == Get(query_metadata, "query_type", "basic")
      viz == Get(query_metadata, "suggested_visualizations", {})
  IN  IF query_type = "geographic" \/ "map" \in viz THEN "geographic"
      ELSE IF query_type = "profile" \/ "depth_profile" \in viz THEN "profile"
      ELSE IF query_type = "time_series" \/ "time_series" \in viz THEN "time_series"
      ELSE IF query_type = "comparative" THEN "comparative"
      ELSE IF query_type = "statistical" THEN "statistical"
      ELSE "general"

create_empty_response(query_metadata) ==
  [ success |-> TRUE,
    data |-> [ title |-> "No Results Found",
               sql_query |-> Get(query_metadata, "sql_query", <<>>),
               display_components |-> << "message" >>,
               query_results |-> "no_rows",
               execution_stats |-> [records_processed |-> 0] ] ]

create_error_response(error_message, query_metadata) ==
  [ success |-> FALSE,
    error |-> error_message,
    data |-> [ title |-> "Processing Error",
               sql_query |-> Get(query_metadata, "sql_query", <<>>),
               display_components |-> << "error" >>,
               query_results |-> "no_rows",
               execution_stats |-> [error |-> error_message] ] ]

\* str(e) of the exception a shaping branch raises on rows of an odd shape
ShapingError == << "'NoneType' object is not subscriptable" >>

\* faulty variant: the except branch answers with the empty response
ProcessQueryResultsErrorAsEmpty(raw_results, query_metadata) ==
  IF raw_results \in {"no_rows", "odd_rows"} THEN create_empty_response(query_metadata)
  ELSE [ success |-> TRUE,
         data |-> [ strategy |-> shaping_strategy(query_metadata),
                    sql_query |-> Get(query_metadata, "sql_query", <<>>),
                    query_results |-> raw_results ] ]

\* faulty variant: the test for an empty result list is missing
ProcessQueryResultsNoEmptyTest(raw_results, query_metadata) ==
  IF raw_results = "odd_rows" THEN create_error_response(ShapingError, query_metadata)
  ELSE [ success |-> TRUE,
         data |-> [ strategy |-> shaping_strategy(query_metadata),
                    sql_query |-> Get(query_metadata, "sql_query", <<>>),
                    query_results |-> raw_results ] ]

\* process_query_results: `if not raw_results`, then the shaping inside try
process_query_results(raw_results, query_metadata) ==
  IF raw_results = "no_rows" THEN create_empty_response(query_metadata)
  ELSE IF raw_results = "odd_rows" THEN create_error_response(ShapingError, query_metadata)
  ELSE [ success |-> TRUE,
         data |-> [ strategy |-> shaping_strategy(query_metadata),
                    sql_query |-> Get(query_metadata, "sql_query", <<>>),
                    query_results |-> raw_results ] ]

(***************************************************************************)
(* Query Router: the envelopes of _process_direct_sql                      *)
(***************************************************************************)
direct_sql_error(cause) ==
  [success |-> FALSE, error |-> cause, execution_path |-> "direct_sql"]

\* the try/except of _process_direct_sql around the steps of the call
process_direct_sql_except(outcome) ==
  IF outcome.raised
    THEN [raised |-> FALSE, value |-> direct_sql_error(outcome.error)]
    ELSE outcome

\* an envelope that passes the shaper's verdict on
DirectSqlEnvelopeShaperVerdict(sql_response, processed_results) ==
  [ success |-> processed_results.success,
    execution_path |-> "direct_sql",
    data |-> processed_results.data,
    sql_query |-> sql_response.sql_query,
    explanation |-> sql_response.explanation,
    confidence |-> sql_response.confidence ]

\* the value _process_direct_sql returns after the shaper
direct_sql_envelope(sql_response, processed_results) ==
  [ success |-> TRUE,
    execution_path |-> "direct_sql",
    data |-> processed_results.data,
    sql_query |-> sql_response.sql_query,
    explanation |-> sql_response.explanation,
    confidence |-> sql_response.confidence ]

(***************************************************************************)
(* Array texts: utils.helpers.parse_array_string and                       *)
(* ArgoDataProcessor._extract_array_data                                   *)
(***************************************************************************)
\* a Python float, in thousandths; nan and the infinities are values too
Finite(milli) == [kind |-> "finite", milli |-> milli]

NotANumber == [kind |-> "nan", milli |-> 0]

Infinite(sign) == [kind |-> "inf", milli |-> sign]

\* float(text) raised ValueError
ValueError == [kind |-> "ValueError", milli |-> 0]

\* the first three digits after the point, as thousandths
FractionMilli(digits) ==
  LET padded == digits \o <<"0","0","0">>
  IN  TextToNat(SubSeq(padded, 1, 3))

\* float(text) of a stripped text: a decimal literal without exponent, or one
\* of the names float() knows
FloatOf(text) ==
  LET signed == Len(text) > 0 /\ text[1] \in {"+", "-"}
      sign   == IF signed /\ text[1] = "-" THEN 0 - 1 ELSE 1
      body   == IF signed THEN Tail(text) ELSE text
      p      == DigitRunEnd(body, 1)
      q      == DigitRunEnd(body, p + 2)
  IN  IF Lower(body) \in {<<"i","n","f">>, <<"i","n","f","i","n","i","t","y">>} THEN Infinite(sign)
      ELSE IF Lower(body) = <<"n","a","n">> THEN NotANumber
      ELSE IF Len(body) = 0 THEN ValueError
      ELSE IF p = Len(body) THEN Finite(sign * 1000 * TextToNat(body))
      ELSE IF body[p + 1] = "." /\ q = Len(body) /\ (p >= 1 \/ q >= p + 2)
        THEN Finite(sign * (1000 * TextToNat(SubSeq(body, 1, p))
                              + FractionMilli(SubSeq(body, p + 2, q))))
      ELSE ValueError

\* str.strip(chars)
RECURSIVE StripCharsLeft(_, _)
StripCharsLeft(s, chars) ==
  IF Len(s) > 0 /\ s[1] \in chars THEN StripCharsLeft(Tail(s), chars) ELSE s

RECURSIVE StripCharsRight(_, _)
StripCharsRight(s, chars) ==
  IF Len(s) > 0 /\ s[Len(s)] \in chars
    THEN StripCharsRight(SubSeq(s, 1, Len(s) - 1), chars)
    ELSE s

StripChars(s, chars) == StripCharsRight(StripCharsLeft(s, chars), chars)

\* str.split(sep) for a one-character separator
RECURSIVE SplitFrom(_, _, _)
SplitFrom(s, sep, item) ==
  IF Len(s) = 0 THEN << item >>
  ELSE IF s[1] = sep THEN << item >> \o SplitFrom(Tail(s), sep, << >>)
  ELSE SplitFrom(Tail(s), sep, Append(item, s[1]))

Split(s, sep) == SplitFrom(s, sep, << >>)

Braces == {"{", "}"}

\* the texts both parsers take for an absent element
AbsentTexts == { <<"n","u","l","l">>, <<"n","a","n">>, << >> }

IsAbsent(item) == Lower(item) \in AbsentTexts

\* the item test without lower()
IsAbsentAsWritten(item) == item \in AbsentTexts

\* the loop of both parsers: float() of the items that are there, ValueError
\* skipped
RECURSIVE FloatsOf(_, _)
FloatsOf(items, lowered) ==
  IF Len(items) = 0 THEN << >>
  ELSE LET item   == items[1]
           absent == IF lowered THEN IsAbsent(item) ELSE IsAbsentAsWritten(item)
           value  == FloatOf(item)
           rest   == FloatsOf(Tail(items), lowered)
       IN  IF Len(item) > 0 /\ ~absent /\ value # ValueError
             THEN << value >> \o rest
             ELSE rest

StripAll(items) == [i \in 1..Len(items) |-> Strip(items[i])]

\* parse_array_string whose item test lacks lower()
ParseArrayStringCaseSensitive(array_str) ==
  IF Len(array_str) = 0 THEN << >>
  ELSE LET inner == StripChars(array_str, Braces)
       IN  IF Len(inner) = 0 THEN << >>
           ELSE FloatsOf(StripAll(Split(inner, ",")), FALSE)

\* parse_array_string(array_str)
parse_array_string(array_str) ==
  IF Len(array_str) = 0 THEN << >>
  ELSE LET inner == StripChars(array_str, Braces)
       IN  IF Len(inner) = 0 THEN << >>
           ELSE FloatsOf(StripAll(Split(inner, ",")), TRUE)

\* _extract_array_data(array_field) for a text, dtype=float
extract_array_data(array_field) ==
  IF Len(array_field) = 0 THEN << >>
  ELSE LET stripped == StripAll(Split(StripChars(array_field, Braces), ","))
           items    == SelectSeq(stripped, LAMBDA x : Len(x) > 0)
       IN  IF Len(items) = 0 THEN << >>
           ELSE FloatsOf(items, TRUE)

(***************************************************************************)
(* Context Assembler: ArgoSQLGenerator._get_relevant_context               *)
(***************************************************************************)
\* top_k of the five retrievals
general_top_k == 3

schema_top_k == 2

geography_top_k == 1

bgc_top_k == 2

examples_top_k == 1

\* chunk.get('content', '')[:100]
chunk_id_length == 100

\* unique_chunks[:8]
max_context_chunks == 8

\* s[:n]
Take(s, n) == IF Len(s) <= n THEN s ELSE SubSeq(s, 1, n)

\* the text of n copies of one character
Text(ch, n) == [i \in 1..n |-> ch]

chunk_id(chunk) == Take(chunk.content, chunk_id_length)

\* faulty variant: chunks are told apart by their whole content
RECURSIVE RemoveDuplicatesByContent(_, _)
RemoveDuplicatesByContent(chunks, seen) ==
  IF Len(chunks) = 0 THEN << >>
  ELSE IF Head(chunks).content \in seen
    THEN RemoveDuplicatesByContent(Tail(chunks), seen)
  ELSE << Head(chunks) >>
       \o RemoveDuplicatesByContent(Tail(chunks), seen \cup {Head(chunks).content})

\* the loop over context_chunks with the set `seen`
RECURSIVE remove_duplicates(_, _)
remove_duplicates(chunks, seen) ==
  IF Len(chunks) = 0 THEN << >>
  ELSE IF chunk_id(Head(chunks)) \in seen
    THEN remove_duplicates(Tail(chunks), seen)
  ELSE << Head(chunks) >>
       \o remove_duplicates(Tail(chunks), seen \cup {chunk_id(Head(chunks))})

\* the top_k of process_query_with_tools' call of retrieve_context
tool_context_top_k == 5

\* faulty variant: what the collection holds is returned whatever its state
SearchByCategoryUnguarded(knowledge_base, chunk_type) == knowledge_base[chunk_type]

\* ArgoRAGSystem.search_by_category: [] without a collection and when the
\* query of the collection raises
search_by_category(knowledge_base, chunk_type) ==
  IF knowledge_base.state = "answers" THEN knowledge_base[chunk_type] ELSE << >>

\* ArgoRAGSystem.retrieve_context: the same, and the ranking cut to top_k
retrieve_context(knowledge_base, top_k) ==
  IF knowledge_base.state = "answers" THEN Take(knowledge_base.general, top_k) ELSE << >>

\* the list the five retrievals are appended to, in the order of the calls;
\* the region and BGC searches are made only for intents that ask for them
retrieved_chunks(intent, retrieved) ==
  retrieve_context(retrieved, general_top_k)
  \o search_by_category(retrieved, "schema")
  \o (IF intent.region # NoValue THEN search_by_category(retrieved, "geography") ELSE << >>)
  \o (IF intent.float_type = "BGC" \/ intent.parameters \cap BgcParameters # {}
        THEN search_by_category(retrieved, "bgc") ELSE << >>)
  \o search_by_category(retrieved, "examples")

get_relevant_context(intent, retrieved) ==
  Take(remove_duplicates(retrieved_chunks(intent, retrieved), {}), max_context_chunks)

(***************************************************************************)
(* What the knowledge base can answer                                      *)
(***************************************************************************)
\* documents of the knowledge base: one that the general and the schema
\* search both find, one with the same first 100 characters and another
\* end, one that differs from them in the 100th character only, and
\* others, longer and shorter than 100 characters
SharedDocument == Text("x", chunk_id_length) \o <<" ","c","o","l","u","m","n","s"," ","o","f"," ","a","r","g","o","_","p","r","o","f","i","l","e","s">>

SamePrefixDocument == Text("x", chunk_id_length) \o <<" ","c","o","l","u","m","n","s"," ","o","f"," ","a","r","g","o","_","f","l","o","a","t","s">>

\* the documents each search can find, best match first
GeneralDocuments ==
  << Text("a", chunk_id_length + 20),
     Text("b", chunk_id_length),
     Text("x", chunk_id_length - 1) \o <<"y"," ","c","o","l","u","m","n","s">>,
     SharedDocument >>

SchemaDocuments == << SamePrefixDocument, SharedDocument, <<"w","m","o","_","i","d"," ","i","n","t","e","g","e","r">> >>

GeographyDocuments == << <<"A","r","a","b","i","a","n"," ","S","e","a",":"," ","8","N","-","3","0","N",","," ","5","0","E","-","7","5","E">> >>

BgcDocuments == << Text("o", chunk_id_length) \o <<"x","y","g","e","n">>, <<"c","h","l","o","r","o","p","h","y","l","l">> >>

ExampleDocuments == << <<"S","E","L","E","C","T"," ","w","m","o","_","i","d"," ","F","R","O","M"," ","a","r","g","o","_","f","l","o","a","t","s">> >>

\* what a search can return: up to top_k of its documents, best match first
SearchResults(documents, top_k) ==
  LET picks == { f \in UNION { [1..n -> 1..Len(documents)] : n \in 0..top_k } :
                   \A i \in 1..(Len(f) - 1) : f[i] < f[i + 1] }
  IN  { [i \in 1..Len(f) |-> [content |-> documents[f[i]]]] : f \in picks }

\* the answers of the knowledge base to the five searches of one call
RetrievalResults ==
  [ state     : {"answers"},
    general   : SearchResults(GeneralDocuments, general_top_k),
    schema    : SearchResults(SchemaDocuments, schema_top_k),
    geography : SearchResults(GeographyDocuments, geography_top_k),
    bgc       : SearchResults(BgcDocuments, bgc_top_k),
    examples  : SearchResults(ExampleDocuments, examples_top_k) ]

\* the answers of a knowledge base without a collection
NoRetrieval ==
  [state |-> "none", general |-> << >>, schema |-> << >>, geography |-> << >>, bgc |-> << >>,
   examples |-> << >>]
(***************************************************************************)
(* Inputs of the routing specification                                     *)
(***************************************************************************)
RouteVocab ==
  { <<"s","h","o","w">>, <<"f","l","o","a","t","s">>, <<"C","o","m","p","a","r","e">>, <<"n","e","a","r","e","s","t">>, <<"a","v","e","r","a","g","e">>,
    <<"t","r","a","j","e","c","t","o","r","y">>, <<"b","e","t","w","e","e","n">>, <<"s","u","m","m","a","r","y">>, <<"v","s">>, <<"a","r","o","u","n","d">>,
    <<"A","n","a","l","y","z","e">>, <<"A","r","a","b","i","a","n">>, <<"b","e","n","g","a","l">>, <<"e","q","u","a","t","o","r">>, <<"b","g","c">>,
    <<"c","o","m","p","a","r","i","s","o","n">>, <<"m","u","l","t","i","p","l","e">>, <<"r","e","g","i","o","n","s">>, <<"o","x","y","g","e","n">>, <<"p","r","o","f","i","l","e">> }

\* all texts of at most n words of the vocabulary
WordSeqs(vocab, n) == UNION { [1..k -> vocab] : k \in 0..n }

RouteQueries == { JoinWords(ws) : ws \in WordSeqs(RouteVocab, MaxWords) }

\* the session summary handed to route_query
SessionContexts == { <<>>, <<"p","r","e","v">> }

\* the queries of the pipeline specification
ScenarioQueries ==
  { <<"s","h","o","w"," ","f","l","o","a","t","s">>,
    <<"S","h","o","w"," ","m","e"," ","B","G","C"," ","f","l","o","a","t","s"," ","i","n"," ","t","h","e"," ","A","r","a","b","i","a","n"," ","S","e","a">>,
    <<"c","o","u","n","t"," ","f","l","o","a","t","s"," ","i","n"," ","B","a","y"," ","o","f"," ","B","e","n","g","a","l"," ","p","a","s","t"," ","6"," ","m","o","n","t","h","s">>,
    <<"C","o","r","e"," ","f","l","o","a","t","s"," ","r","e","c","e","n","t"," ","e","q","u","a","t","o","r">>,
    <<"s","a","l","i","n","i","t","y"," ","i","n"," ","A","r","a","b","i","a","n"," ","S","e","a"," ","l","a","s","t"," ","m","o","n","t","h">>,
    <<"s","h","o","w"," ","s","s","t"," ","l","a","s","t"," ","y","e","a","r">>,
    <<"t","r","a","c","k"," ","f","l","o","a","t"," ","m","o","v","e","m","e","n","t">>,
    <<"S","h","o","w"," ","m","e"," ","t","e","m","p","e","r","a","t","u","r","e"," ","p","r","o","f","i","l","e","s"," ","i","n"," ","A","r","a","b","i","a","n"," ","S","e","a">>,
    <<"s","a","l","i","n","i","t","y"," ","p","r","o","f","i","l","e"," ","i","n"," ","B","a","y"," ","o","f"," ","B","e","n","g","a","l">>,
    <<"c","h","l","o","r","o","p","h","y","l","l"," ","d","e","p","t","h">>,
    <<"F","i","n","d"," ","t","h","e"," ","n","e","a","r","e","s","t"," ","5"," ","f","l","o","a","t","s"," ","t","o"," ","l","a","t","i","t","u","d","e"," ","1","5",".","5"," ","l","o","n","g","i","t","u","d","e"," ","7","2",".","8">>,
    <<"C","o","m","p","a","r","e"," ","o","x","y","g","e","n"," ","l","e","v","e","l","s"," ","b","e","t","w","e","e","n"," ","A","r","a","b","i","a","n"," ","S","e","a"," ","a","n","d"," ","B","a","y"," ","o","f"," ","B","e","n","g","a","l">>,
    <<"S","h","o","w"," ","t","r","a","j","e","c","t","o","r","y"," ","o","f"," ","f","l","o","a","t"," ","2","9","0","2","2","3","8"," ","f","o","r"," ","l","a","s","t"," ","6","0"," ","d","a","y","s">>,
    <<"c","o","m","p","a","r","e"," ","o","x","y","g","e","n"," ","a","l","o","n","g"," ","t","h","e"," ","t","r","a","j","e","c","t","o","r","y">>,
    <<"s","u","m","m","a","r","y"," ","o","f"," ","f","l","o","a","t","s">> }

\* datetime.now() of the call, as a day number (2024-10-04)
Today == 20000

\* request counts of a key when a call starts
KeyLoads == { rate_limit_per_minute - 1, rate_limit_per_minute }

\* a response, analysis or envelope that is not there yet
Unset == [unset |-> TRUE]

\* no exception
NoError == << >>

VARIABLES
  query,             \* user_query of the call in progress
  session_context,   \* session_context of the call in progress
  now,               \* the day of the call
  retrieved,         \* what the knowledge base answers to the searches of the call
  context_chunks,    \* value _get_relevant_context returned
  query_intent,      \* value _analyze_query_intent returned
  template_calls,    \* what a caller of _generate_template_fallback by itself passed and got, call by call
  pc,                \* position of the call
  path,              \* pipeline route_query dispatched to
  key_requests,      \* key_usage[k]["requests"] of the model client
  current_key_index, \* current_key_index of the model client
  client,            \* value _get_next_available_client returned last
  attempt,           \* loop variable of the model client's retry loop
  slept,             \* the last iteration slept for the rate-limit window
  llm_outcomes,      \* what each attempt of the model call in progress met
  llm_calls,         \* how often the call asked the model client for a response
  store_queries,     \* the SQL texts _process_direct_sql handed to execute_query
  llm_response,      \* value generate_sql_query returned
  sql_response,      \* value generate_query returned
  raw_results,       \* value execute_query returned
  processed_results, \* value process_query_results returned
  array_tokens,      \* the elements of the array a row holds, as the store writes them
  array_field,       \* the text form of the array
  parsed_array,      \* value parse_array_string returned
  extracted_array,   \* value _extract_array_data returned
  store_error,       \* exception the store raised inside execute_query
  analysis,          \* value generate_tool_analysis returned
  tool_results,      \* tool_results of process_query_with_tools
  caught,            \* exception a path's except branch caught
  envelope           \* value route_query returned

call_vars == <<query, session_context, now>>

generator_vars == <<retrieved, context_chunks, query_intent, template_calls>>

key_vars == <<key_requests, current_key_index, client>>

loop_vars == <<attempt, slept, llm_outcomes>>

sql_vars == <<llm_response, sql_response, raw_results, store_error>>

mcp_vars == <<analysis, tool_results>>

array_vars == <<array_tokens, array_field, parsed_array, extracted_array>>

shaper_vars == <<processed_results, array_vars>>

count_vars == <<llm_calls, store_queries>>

vars == <<call_vars, generator_vars, shaper_vars, count_vars, pc, path, key_vars, loop_vars, sql_vars, mcp_vars, caught, envelope>>

\* the objects as constructed, before a call
Constructed(loads) ==
  /\ now = Today
  /\ context_chunks = << >>
  /\ query_intent = Unset
  /\ template_calls = << >>
  /\ path = NoValue
  /\ key_requests \in { [k \in Keys |-> load] : load \in loads }
  /\ current_key_index = 0
  /\ client = NoClient
  /\ attempt = 0
  /\ slept = FALSE
  /\ llm_outcomes = << >>
  /\ llm_calls = 0
  /\ store_queries = << >>
  /\ llm_response = Unset
  /\ sql_response = Unset
  /\ raw_results = NoValue
  /\ processed_results = Unset
  /\ parsed_array = Unset
  /\ extracted_array = Unset
  /\ store_error = NoError
  /\ analysis = Unset
  /\ tool_results = << >>
  /\ caught = NoError
  /\ envelope = Unset

\* the state when route_query is entered
CallStart(loads) ==
  /\ pc = "route"
  /\ array_tokens = << >>
  /\ array_field = << >>
  /\ Constructed(loads)

InitRoute ==
  /\ query \in RouteQueries
  /\ retrieved = NoRetrieval
  /\ session_context \in SessionContexts
  /\ CallStart({0})

Init ==
  /\ query \in ScenarioQueries
  /\ retrieved = NoRetrieval
  /\ session_context = << >>
  /\ CallStart(KeyLoads)

\* route_query: classify, then dispatch; process_query_with_tools begins with
\* its call of retrieve_context
RouteQuery ==
  /\ pc = "route"
  /\ LET complexity == analyze_query_complexity(query)
     IN  IF complexity = "complex"
           THEN /\ path' = "mcp"
                /\ context_chunks' = retrieve_context(retrieved, tool_context_top_k)
                /\ pc' = "mcp_analyze"
           ELSE /\ path' = "direct_sql"
                /\ pc' = "sql_generate"
                /\ UNCHANGED context_chunks
  /\ UNCHANGED <<call_vars, retrieved, query_intent, template_calls, shaper_vars, count_vars, key_vars, loop_vars, sql_vars, mcp_vars, caught, envelope>>

(***************************************************************************)
(* Direct-SQL path: _process_direct_sql and what it calls                  *)
(***************************************************************************)
\* the sets of keys whose minute can have passed when a client is asked
\* for: none or all of them, and all of them after the loop slept a minute
ExpiredChoices == IF slept THEN {Keys} ELSE {{}, Keys}

\* generate_query up to the profile test: the context is assembled, then
\* profile requests are built from the intent, the others go to the model
GenerateQuery ==
  /\ pc = "sql_generate"
  /\ query_intent' = analyze_query_intent(query)
  /\ context_chunks' = get_relevant_context(query_intent', retrieved)
  /\ IF is_profile_request(query_intent', query)
       THEN /\ sql_response' =
                 sql_response_of(generate_profile_query(query_intent', query, now),
                                 query_intent', query)
            /\ pc' = "sql_generated"
       ELSE /\ pc' = "sql_llm"
            /\ UNCHANGED sql_response
  /\ UNCHANGED <<call_vars, retrieved, template_calls, shaper_vars, count_vars, path, key_vars, loop_vars, llm_response, raw_results,
                 store_error, mcp_vars, caught, envelope>>

\* one iteration of the retry loop of generate_sql_query
GenerateSqlAttempt ==
  /\ pc = "sql_llm"
  /\ \E expired \in ExpiredChoices :
       LET got == get_next_available_client(key_requests, current_key_index, expired)
       IN  /\ key_requests' = got.requests
           /\ client' = got.client
           /\ IF got.client = NoClient
                THEN /\ current_key_index' = got.index
                     /\ llm_outcomes' = Append(llm_outcomes, "no_client")
                     /\ IF attempt < max_retries - 1
                          THEN /\ attempt' = attempt + 1
                               /\ slept' = TRUE
                               /\ UNCHANGED <<pc, llm_response>>
                          ELSE /\ llm_response' = sql_rate_limited
                               /\ pc' = "sql_validate"
                               /\ UNCHANGED <<attempt, slept>>
                ELSE \E outcome \in LlmSqlOutcomes :
                       /\ llm_outcomes' = Append(llm_outcomes, outcome.kind)
                       /\ slept' = FALSE
                       /\ IF outcome.kind = "json"
                            THEN /\ llm_response' = sql_parsed(outcome.body)
                                 /\ pc' = "sql_validate"
                                 /\ current_key_index' = got.index
                                 /\ UNCHANGED attempt
                          ELSE IF attempt < max_retries - 1
                            THEN /\ current_key_index' = (got.index + 1) % NumKeys
                                 /\ attempt' = attempt + 1
                                 /\ UNCHANGED <<pc, llm_response>>
                          ELSE /\ llm_response' =
                                    sql_failed_after_retries(
                                      IF outcome.kind = "raises"
                                        THEN "model call failed"
                                        ELSE "Failed to parse JSON response")
                               /\ pc' = "sql_validate"
                               /\ current_key_index' = got.index
                               /\ UNCHANGED attempt
  /\ llm_calls' = IF llm_outcomes = << >> THEN llm_calls + 1 ELSE llm_calls
  /\ UNCHANGED <<call_vars, generator_vars, shaper_vars, store_queries, path, sql_response,
                 raw_results, store_error, mcp_vars, caught, envelope>>

\* faulty variant: after a failed answer the model client is asked again
ValidateGeneratedSqlRetrying ==
  /\ pc = "sql_validate"
  /\ IF ~llm_response.success /\ llm_calls < 2
       THEN /\ pc' = "sql_llm"
            /\ UNCHANGED sql_response
       ELSE /\ sql_response' =
                 sql_response_of(result_from_llm(llm_response, query_intent, query, now),
                                 query_intent, query)
            /\ pc' = "sql_generated"
  /\ attempt' = 0
  /\ slept' = FALSE
  /\ llm_outcomes' = << >>
  /\ UNCHANGED <<call_vars, generator_vars, shaper_vars, count_vars, path, key_vars, llm_response,
                 raw_results, store_error, mcp_vars, caught, envelope>>

\* generate_query after the model client returned: validate, enhance or
\* fall back to a template, and build the returned value
ValidateGeneratedSql ==
  /\ pc = "sql_validate"
  /\ sql_response' =
       sql_response_of(result_from_llm(llm_response, query_intent, query, now),
                       query_intent, query)
  /\ pc' = "sql_generated"
  /\ attempt' = 0
  /\ slept' = FALSE
  /\ llm_outcomes' = << >>
  /\ UNCHANGED <<call_vars, generator_vars, shaper_vars, count_vars, path, key_vars, llm_response, raw_results,
                 store_error, mcp_vars, caught, envelope>>

\* _process_direct_sql: `if not sql_response.get("success"): return sql_response`
ReturnFailedGeneration ==
  /\ pc = "sql_generated"
  /\ ~sql_response.success
  /\ envelope' = sql_response
  /\ pc' = "done"
  /\ llm_response' = Unset
  /\ UNCHANGED <<call_vars, generator_vars, shaper_vars, count_vars, path, key_vars, loop_vars, sql_response, raw_results,
                 store_error, mcp_vars, caught>>

\* a router that hands the store the upper-cased statement
ExecuteQueryUpperCased ==
  /\ pc = "sql_generated"
  /\ sql_response.success
  /\ \E rpc \in SqlRpcOutcomes, alternative \in AlternativeOutcomes :
       LET outcome == process_direct_sql_except(
                        execute_query(sql_response.sql_query, rpc, alternative))
       IN  /\ store_error' = IF rpc = "raises" THEN StoreError ELSE NoError
           /\ IF outcome.raised
                THEN /\ pc' = "raised"
                     /\ UNCHANGED <<raw_results, envelope, caught>>
              ELSE IF "value" \in DOMAIN outcome
                THEN /\ envelope' = outcome.value
                     /\ caught' = outcome.value.error
                     /\ pc' = "done"
                     /\ UNCHANGED raw_results
              ELSE /\ raw_results' = outcome.rows
                   /\ pc' = "sql_shape"
                   /\ UNCHANGED <<envelope, caught>>
  /\ store_queries' = Append(store_queries, Upper(sql_response.sql_query))
  /\ llm_response' = Unset
  /\ UNCHANGED <<call_vars, generator_vars, shaper_vars, llm_calls, path, key_vars, loop_vars,
                 sql_response, mcp_vars>>

\* _process_direct_sql: db_client.execute_query(sql_query)
ExecuteQuery ==
  /\ pc = "sql_generated"
  /\ sql_response.success
  /\ \E rpc \in SqlRpcOutcomes, alternative \in AlternativeOutcomes :
       LET outcome == process_direct_sql_except(
                        execute_query(sql_response.sql_query, rpc, alternative))
       IN  /\ store_error' = IF rpc = "raises" THEN StoreError ELSE NoError
           /\ IF outcome.raised
                THEN /\ pc' = "raised"
                     /\ UNCHANGED <<raw_results, envelope, caught>>
              ELSE IF "value" \in DOMAIN outcome
                THEN /\ envelope' = outcome.value
                     /\ caught' = outcome.value.error
                     /\ pc' = "done"
                     /\ UNCHANGED raw_results
              ELSE /\ raw_results' = outcome.rows
                   /\ pc' = "sql_shape"
                   /\ UNCHANGED <<envelope, caught>>
  /\ store_queries' = Append(store_queries, sql_response.sql_query)
  /\ llm_response' = Unset
  /\ UNCHANGED <<call_vars, generator_vars, shaper_vars, llm_calls, path, key_vars, loop_vars,
                 sql_response, mcp_vars>>

\* _process_direct_sql: shape the rows and build the envelope
ShapeResults ==
  /\ pc = "sql_shape"
  /\ processed_results' = process_query_results(raw_results, sql_response)
  /\ envelope' = direct_sql_envelope(sql_response, processed_results')
  /\ pc' = "done"
  /\ UNCHANGED <<call_vars, generator_vars, array_vars, count_vars, path, key_vars, loop_vars,
                 sql_vars, mcp_vars, caught>>

(***************************************************************************)
(* Tool path: process_query_with_tools and what it calls                   *)
(***************************************************************************)
\* one iteration of the loop of generate_tool_analysis, the model answering
\* with one of `outcomes`
ToolAnalysisAttemptWith(outcomes) ==
  /\ pc = "mcp_analyze"
  /\ \E expired \in ExpiredChoices :
       LET got == get_next_available_client(key_requests, current_key_index, expired)
           last == (attempt = 2)
       IN  /\ key_requests' = got.requests
           /\ client' = got.client
           /\ current_key_index' = got.index
           /\ IF got.client = NoClient
                THEN /\ llm_outcomes' = Append(llm_outcomes, "no_client")
                     /\ IF last
                          THEN /\ analysis' = tool_analysis_no_response
                               /\ pc' = "mcp_analyzed"
                               /\ UNCHANGED attempt
                          ELSE /\ attempt' = attempt + 1
                               /\ UNCHANGED <<pc, analysis>>
                ELSE \E outcome \in outcomes :
                       /\ llm_outcomes' = Append(llm_outcomes, outcome.kind)
                       /\ IF outcome.kind = "json"
                            THEN /\ analysis' = tool_analysis_parsed(outcome.body)
                                 /\ pc' = "mcp_analyzed"
                                 /\ UNCHANGED attempt
                          ELSE IF ~last
                            THEN /\ attempt' = attempt + 1
                                 /\ UNCHANGED <<pc, analysis>>
                          ELSE /\ analysis' =
                                    IF outcome.kind = "not_json"
                                      THEN fallback_tool_analysis(query)
                                    ELSE IF outcome.kind = "raises"
                                      THEN tool_analysis_error("model call failed")
                                    ELSE tool_analysis_error(
                                           "argument of type 'int' is not iterable")
                               /\ pc' = "mcp_analyzed"
                               /\ UNCHANGED attempt
  /\ llm_calls' = IF llm_outcomes = << >> THEN llm_calls + 1 ELSE llm_calls
  /\ UNCHANGED <<call_vars, generator_vars, shaper_vars, store_queries, path, slept, sql_vars,
                 tool_results, caught, envelope>>

\* one iteration of the loop of generate_tool_analysis
ToolAnalysisAttempt == ToolAnalysisAttemptWith(LlmPlanOutcomes)

\* process_query_with_tools: `if not analysis.get("success"): return analysis`
ReturnFailedAnalysis ==
  /\ pc = "mcp_analyzed"
  /\ ~Get(analysis, "success", FALSE)
  /\ envelope' = analysis
  /\ pc' = "done"
  /\ attempt' = 0
  /\ llm_outcomes' = << >>
  /\ UNCHANGED <<call_vars, generator_vars, shaper_vars, count_vars, path, key_vars, slept, sql_vars, mcp_vars, caught>>

\* process_query_with_tools: tool_results = []
BeginToolCalls ==
  /\ pc = "mcp_analyzed"
  /\ Get(analysis, "success", FALSE)
  /\ tool_results' = << >>
  /\ pc' = "mcp_execute"
  /\ attempt' = 0
  /\ llm_outcomes' = << >>
  /\ UNCHANGED <<call_vars, generator_vars, shaper_vars, count_vars, path, key_vars, slept, sql_vars, analysis, caught, envelope>>

\* one iteration of the loop over analysis["tool_calls"]
ExecuteTool ==
  /\ pc = "mcp_execute"
  /\ Len(tool_results) < Len(analysis.tool_calls)
  /\ \E rpc \in StoreRpcOutcomes :
       tool_results' =
         Append(tool_results,
                execute_tool(analysis.tool_calls[Len(tool_results) + 1], rpc))
  /\ UNCHANGED <<call_vars, generator_vars, shaper_vars, count_vars, pc, path, key_vars, loop_vars, sql_vars, analysis, caught,
                 envelope>>

\* faulty variant: the synthesis does not wait for the end of the loop
SynthesizePartialBatch ==
  /\ pc = "mcp_execute"
  /\ Len(tool_results) >= 1
  /\ LET raw == synthesize_response(analysis, tool_results)
         outcome == process_query_with_tools_except(raw)
     IN  IF outcome.raised
           THEN /\ pc' = "raised"
                /\ UNCHANGED <<envelope, caught>>
           ELSE /\ envelope' = outcome.value
                /\ caught' = IF raw.raised THEN raw.error ELSE NoError
                /\ pc' = "done"
  /\ UNCHANGED <<call_vars, generator_vars, shaper_vars, count_vars, path, key_vars, loop_vars, sql_vars, mcp_vars>>

\* _synthesize_response once every tool call has a result, inside the
\* try/except of process_query_with_tools
SynthesizeResponse ==
  /\ pc = "mcp_execute"
  /\ Len(tool_results) = Len(analysis.tool_calls)
  /\ LET raw == synthesize_response(analysis, tool_results)
         outcome == process_query_with_tools_except(raw)
     IN  IF outcome.raised
           THEN /\ pc' = "raised"
                /\ UNCHANGED <<envelope, caught>>
           ELSE /\ envelope' = outcome.value
                /\ caught' = IF raw.raised THEN raw.error ELSE NoError
                /\ pc' = "done"
  /\ UNCHANGED <<call_vars, generator_vars, shaper_vars, count_vars, path, key_vars, loop_vars, sql_vars, mcp_vars>>

(***************************************************************************)
(* Specifications                                                          *)
(***************************************************************************)
NextRoute == RouteQuery

SpecRoute == InitRoute /\ [][NextRoute]_vars

Next ==
  \/ RouteQuery
  \/ GenerateQuery
  \/ GenerateSqlAttempt
  \/ ValidateGeneratedSql
  \/ ReturnFailedGeneration
  \/ ExecuteQuery
  \/ ShapeResults
  \/ ToolAnalysisAttempt
  \/ ReturnFailedAnalysis
  \/ BeginToolCalls
  \/ ExecuteTool
  \/ SynthesizeResponse

Spec == Init /\ [][Next]_vars

(***************************************************************************)
(* C1: routing                                                             *)
(***************************************************************************)
\* the indicator terms the statement of C1 lists
ListedIndicators ==
  << <<"n","e","a","r","e","s","t">>, <<"c","l","o","s","e","s","t">>, <<"n","e","a","r","b","y">>, <<"w","i","t","h","i","n">>, <<"c","o","m","p","a","r","e">>, <<"v","e","r","s","u","s">>,
     <<"d","i","f","f","e","r","e","n","c","e">>, <<"b","e","t","w","e","e","n">>, <<"a","v","e","r","a","g","e">>, <<"m","e","a","n">>, <<"s","t","a","t","i","s","t","i","c","s">>, <<"t","r","e","n","d">>,
     <<"t","r","a","j","e","c","t","o","r","y">>, <<"p","a","t","h">>, <<"r","o","u","t","e">> >>

\* the terms the router tests besides the listed ones
UnlistedIndicators ==
  << <<"a","r","o","u","n","d">>, <<"v","s">>, <<"s","u","m","m","a","r","y">>, <<"a","n","a","l","y","z","e">>, <<"a","r","a","b","i","a","n"," ","s","e","a"," ","a","n","d"," ","b","a","y"," ","o","f"," ","b","e","n","g","a","l">>,
     <<"m","u","l","t","i","p","l","e"," ","r","e","g","i","o","n","s">>, <<"b","g","c"," ","c","o","m","p","a","r","i","s","o","n">>, <<"o","x","y","g","e","n"," ","l","e","v","e","l","s"," ","a","c","r","o","s","s">> >>

\* the words by which the router recognises a region
RegionWords == { <<"a","r","a","b","i","a","n">>, <<"b","e","n","g","a","l">>, <<"e","q","u","a","t","o","r">> }

SeveralRegions(text) ==
  Cardinality({ w \in RegionWords : Contains(Lower(text), w) }) > 1

\* C1 as stated: the mcp path is selected exactly for the queries that
\* contain a listed indicator term or mention more than one region
C1_RoutingByListedTerms ==
  pc # "route" =>
    (path = "mcp" <=>
       ContainsAny(Lower(query), ListedIndicators) \/ SeveralRegions(query))

\* C1, amended: the mcp path is selected exactly for the queries whose
\* lower-cased text contains a listed or an unlisted indicator term or more
\* than one of the region words, and direct_sql for every other query,
\* whatever the session context and the state of the model client
C1_Routing ==
  pc # "route" =>
    /\ path \in {"mcp", "direct_sql"}
    /\ path = "mcp" <=>
         \/ ContainsAny(Lower(query), ListedIndicators)
         \/ ContainsAny(Lower(query), UnlistedIndicators)
         \/ SeveralRegions(query)

\* a query with a session context that is routed to mcp by its two regions
\* alone
C1_Witness ==
  /\ path = "mcp"
  /\ session_context # << >>
  /\ SeveralRegions(query)
  /\ ~ContainsAny(Lower(query), ListedIndicators)
  /\ ~ContainsAny(Lower(query), UnlistedIndicators)

(***************************************************************************)
(* C2: SQL of a successful SQLResponse                                     *)
(***************************************************************************)
ForbiddenWords ==
  { <<"D","R","O","P">>, <<"D","E","L","E","T","E">>, <<"T","R","U","N","C","A","T","E">>, <<"A","L","T","E","R">>, <<"C","R","E","A","T","E">>, <<"I","N","S","E","R","T">>, <<"U","P","D","A","T","E">> }

SatisfiesSqlPolicy(sql) ==
  /\ sql # NoText
  /\ Len(sql) > 0
  /\ Contains(Upper(sql), <<"S","E","L","E","C","T">>)
  /\ Contains(Upper(sql), <<"F","R","O","M">>)
  /\ \A w \in ForbiddenWords : ~Contains(Upper(sql), w)

\* C2: the sql_query of every SQLResponse generate_query returns with
\* success=true is non-empty, contains SELECT and FROM and none of the seven
\* forbidden words, whatever the case of its letters
C2_SuccessfulSqlIsValid ==
  (pc = "sql_generated" /\ sql_response.success) =>
    SatisfiesSqlPolicy(sql_response.sql_query)

\* generate_query returned the model's SQL with success=true
C2_Witness ==
  /\ pc = "sql_generated"
  /\ llm_response # Unset
  /\ llm_response.success
  /\ sql_response.success
  /\ sql_response.confidence = 95

(***************************************************************************)
(* C3, C4: a batch of tool calls                                           *)
(***************************************************************************)
\* process_query_with_tools returned after every call of the plan ran
BatchDone ==
  /\ pc = "done"
  /\ path = "mcp"
  /\ analysis # Unset
  /\ analysis.success
  /\ Len(tool_results) = Len(analysis.tool_calls)

Succeeded(results) == SelectSeq(results, LAMBDA r : r.success)

\* C3 as stated: a batch in which at least one call succeeded returns
\* success=true with tools_used and raw_tool_results built from exactly the
\* successful results
C3_PartialFailureSucceeds ==
  (BatchDone /\ Len(Succeeded(tool_results)) >= 1) =>
    /\ envelope.success
    /\ envelope.raw_tool_results = Succeeded(tool_results)
    /\ Len(envelope.tools_used) = Len(Succeeded(tool_results))

\* C4: a batch of N >= 1 calls that all failed returns success=false on
\* path mcp with N tool_errors, the i-th being the error of the i-th call
C4_TotalFailureListsEveryError ==
  (BatchDone /\ Len(tool_results) >= 1 /\ Len(Succeeded(tool_results)) = 0) =>
    /\ ~envelope.success
    /\ envelope.execution_path = "mcp"
    /\ "tool_errors" \in DOMAIN envelope
    /\ Len(envelope.tool_errors) = Len(analysis.tool_calls)
    /\ \A i \in 1..Len(analysis.tool_calls) :
         envelope.tool_errors[i] = tool_results[i].error

\* two calls failed for different reasons: the store raised in one, the
\* other named a tool the registry does not know
C4_Witness ==
  /\ BatchDone
  /\ Len(tool_results) = 2
  /\ Len(Succeeded(tool_results)) = 0
  /\ tool_results[1].error = StoreError
  /\ tool_results[2].error # StoreError
  /\ Len(envelope.tool_errors) = 2

(***************************************************************************)
(* C5, C6, C7: the envelope of route_query                                 *)
(***************************************************************************)
\* C5: route_query never raises, and a call in which a path caught an
\* exception returns an envelope with success=false
C5_NeverRaises ==
  /\ pc # "raised"
  /\ (pc = "done" /\ caught # NoError) => ~envelope.success

\* the tool path caught an exception and returned
C5_Witness ==
  /\ pc = "done"
  /\ path = "mcp"
  /\ caught # NoError
  /\ "error" \in DOMAIN envelope

\* C6 as stated: every envelope with success=false carries an error and
\* the execution_path of the path that was attempted
C6_FailureEnvelopeIsComplete ==
  (pc = "done" /\ ~envelope.success) =>
    /\ "error" \in DOMAIN envelope
    /\ "execution_path" \in DOMAIN envelope
    /\ envelope.execution_path = path

\* C7 as stated: when the store raised while the query was executed on the
\* direct path, the envelope has success=false and the store's error
C7_StorageFailureIsSurfaced ==
  (pc = "done" /\ path = "direct_sql" /\ store_error # NoError) =>
    /\ ~envelope.success
    /\ "error" \in DOMAIN envelope
    /\ envelope.error = store_error

(***************************************************************************)
(* C8: template fallback                                                   *)
(***************************************************************************)
\* C8 as stated: when the model's attempt failed or its SQL failed
\* validation, generate_query returns a template-based SQLResponse with
\* success=true
C8_FallbackAlwaysRecovers ==
  ( /\ pc = "sql_generated"
    /\ llm_response # Unset
    /\ ~llm_response.success \/ ~validate_sql(llm_response.sql_query) )
  => /\ sql_response.success
     /\ sql_response.confidence = 70

(***************************************************************************)
(* C9, C10: fallback tool plan                                             *)
(***************************************************************************)
\* one of the three fallback patterns matches the query
FallbackPatternMatches(text) ==
  LET t == Lower(text)
  IN  \/ Contains(t, <<"n","e","a","r","e","s","t">>) \/ Contains(t, <<"c","l","o","s","e","s","t">>)
      \/ Contains(t, <<"c","o","m","p","a","r","e">>) /\ (Contains(t, <<"o","x","y","g","e","n">>) \/ Contains(t, <<"b","g","c">>))
      \/ Contains(t, <<"t","r","a","j","e","c","t","o","r","y">>)

\* no attempt of the call got a JSON object from the model
NoAttemptParsed ==
  \A i \in 1..Len(llm_outcomes) : llm_outcomes[i] # "json"

\* C9 as stated: when the model fails on the tool path in any way,
\* generate_tool_analysis returns success=false only if no fallback pattern
\* matches the query
C9_EveryFailureFallsBack ==
  (pc = "mcp_analyzed" /\ NoAttemptParsed /\ ~analysis.success) =>
    ~FallbackPatternMatches(query)

\* the model's output was not JSON on each of the three attempts
UnparsableEveryAttempt ==
  /\ pc = "mcp_analyzed"
  /\ llm_outcomes = << "not_json", "not_json", "not_json" >>

\* C10: when the output was unparsable on every attempt the plan is that of
\* the classifier: nearest or closest gives one find_nearest_floats call;
\* else compare with oxygen or bgc gives two get_regional_stats calls for
\* arabian_sea and bay_of_bengal with parameter oxygen; else trajectory
\* gives one get_float_trajectory call; else success=false with no calls
C10_FallbackClassifier ==
  UnparsableEveryAttempt =>
    LET t == Lower(query)
        calls == analysis.tool_calls
    IN  IF Contains(t, <<"n","e","a","r","e","s","t">>) \/ Contains(t, <<"c","l","o","s","e","s","t">>)
          THEN /\ analysis.success
               /\ Len(calls) = 1
               /\ calls[1].name = "find_nearest_floats"
        ELSE IF /\ Contains(t, <<"c","o","m","p","a","r","e">>)
                /\ (Contains(t, <<"o","x","y","g","e","n">>) \/ Contains(t, <<"b","g","c">>))
          THEN /\ analysis.success
               /\ Len(calls) = 2
               /\ \A i \in 1..2 : /\ calls[i].name = "get_regional_stats"
                                  /\ calls[i].parameters.parameter = "oxygen"
               /\ calls[1].parameters.region_name = "arabian_sea"
               /\ calls[2].parameters.region_name = "bay_of_bengal"
        ELSE IF Contains(t, <<"t","r","a","j","e","c","t","o","r","y">>)
          THEN /\ analysis.success
               /\ Len(calls) = 1
               /\ calls[1].name = "get_float_trajectory"
        ELSE /\ ~analysis.success
             /\ calls = << >>

\* the fallback planned two regional statistics for a query that also
\* contains 'trajectory'
C10_Witness ==
  /\ UnparsableEveryAttempt
  /\ Contains(Lower(query), <<"t","r","a","j","e","c","t","o","r","y">>)
  /\ Len(analysis.tool_calls) = 2


(***************************************************************************)
(* C11: empty result set                                                   *)
(***************************************************************************)
\* the store was asked on the direct path and the call ended with no rows
DirectCallEndedEmpty ==
  /\ pc = "done"
  /\ path = "direct_sql"
  /\ sql_response # Unset
  /\ sql_response.success
  /\ raw_results = "no_rows"

\* every tool call of the batch succeeded with empty data from the store
ToolCallsEndedEmpty ==
  /\ pc = "done"
  /\ path = "mcp"
  /\ tool_results # << >>
  /\ \A i \in 1..Len(tool_results) :
       LET r == tool_results[i]
       IN  /\ r.success
           /\ \/ Get(r, "floats", NoValue) = "empty"
              \/ Get(r, "statistics", NoValue) = "empty"
              \/ Get(r, "trajectory", NoValue) = "empty"

ScenarioA == <<"S","h","o","w"," ","m","e"," ","B","G","C"," ","f","l","o","a","t","s"," ","i","n"," ","t","h","e"," ","A","r","a","b","i","a","n"," ","S","e","a">>

\* generate_query has returned and its value came from the template
\* fallback: the model failed or its SQL was rejected
TemplateFallbackUsed ==
  /\ pc = "sql_generated"
  /\ llm_response # Unset
  /\ \/ ~llm_response.success
     \/ ~validate_sql(llm_response.sql_query)

\* C12 as stated: the scenario query has region arabian_sea, float type BGC
\* and query type basic or geographic, goes to direct_sql and, when the
\* model fails or its SQL is rejected, the template SQL that is returned
\* has the BGC filter and the bounding box of the Arabian Sea
C12_ScenarioA ==
  query = ScenarioA =>
    LET intent == analyze_query_intent(query)
    IN  /\ intent.region = "arabian_sea"
        /\ intent.float_type = "BGC"
        /\ intent.query_type \in {"basic", "geographic"}
        /\ pc # "route" => path = "direct_sql"
        /\ TemplateFallbackUsed =>
             /\ sql_response.success
             /\ sql_response.sql_query # NoText
             /\ Contains(sql_response.sql_query, <<"f","l","o","a","t","_","c","a","t","e","g","o","r","y"," ","="," ","'","B","G","C","'">>)
             /\ Contains(sql_response.sql_query, <<"l","a","t","i","t","u","d","e"," ","B","E","T","W","E","E","N"," ","8"," ","A","N","D"," ","3","0">>)
             /\ Contains(sql_response.sql_query, <<"l","o","n","g","i","t","u","d","e"," ","B","E","T","W","E","E","N"," ","5","0"," ","A","N","D"," ","7","5">>)

\* the part of C12 the code keeps: intent and route of the scenario query
C12_IntentAndRoute ==
  query = ScenarioA =>
    LET intent == analyze_query_intent(query)
    IN  /\ intent.region = "arabian_sea"
        /\ intent.float_type = "BGC"
        /\ intent.query_type \in {"basic", "geographic"}
        /\ pc # "route" => path = "direct_sql"

(***************************************************************************)
(* C13: scenario B                                                         *)
(***************************************************************************)
ScenarioB == <<"C","o","m","p","a","r","e"," ","o","x","y","g","e","n"," ","l","e","v","e","l","s"," ","b","e","t","w","e","e","n"," ","A","r","a","b","i","a","n"," ","S","e","a"," ","a","n","d"," ","B","a","y"," ","o","f"," ","B","e","n","g","a","l">>

\* the plan is two get_regional_stats calls, arabian_sea then
\* bay_of_bengal, both for oxygen
TwoRegionalStatsPlanned ==
  /\ analysis # Unset
  /\ "tool_calls" \in DOMAIN analysis
  /\ Len(analysis.tool_calls) = 2
  /\ \A i \in 1..2 :
       /\ analysis.tool_calls[i].name = "get_regional_stats"
       /\ DOMAIN analysis.tool_calls[i].parameters = {"region_name", "parameter"}
       /\ analysis.tool_calls[i].parameters.parameter = "oxygen"
  /\ analysis.tool_calls[1].parameters.region_name = "arabian_sea"
  /\ analysis.tool_calls[2].parameters.region_name = "bay_of_bengal"

\* both calls of the two-region plan returned success
BothRegionalStatsSucceeded ==
  /\ pc = "done"
  /\ TwoRegionalStatsPlanned
  /\ Len(tool_results) = 2
  /\ tool_results[1].success
  /\ tool_results[2].success

\* the payload has statistics.regions with exactly the two region keys
TwoRegionsMerged ==
  /\ envelope.success
  /\ "data" \in DOMAIN envelope
  /\ "statistics" \in DOMAIN envelope.data
  /\ DOMAIN envelope.data.statistics.regions = {"arabian_sea", "bay_of_bengal"}

\* C13 as stated: the scenario query goes to the tool path, the plan the
\* code makes for it is two get_regional_stats calls, one per region, for
\* oxygen, and when both succeed the merged payload has statistics.regions
\* with exactly the keys arabian_sea and bay_of_bengal
C13_ScenarioB ==
  query = ScenarioB =>
    /\ pc # "route" => path = "mcp"
    /\ UnparsableEveryAttempt => TwoRegionalStatsPlanned
    /\ BothRegionalStatsSucceeded => TwoRegionsMerged

\* the part of C13 the code keeps: route, plan, and the merged payload when
\* neither region's statistics hold a null
C13_RoutePlanAndMerge ==
  query = ScenarioB =>
    /\ pc # "route" => path = "mcp"
    /\ UnparsableEveryAttempt => TwoRegionalStatsPlanned
    /\ (BothRegionalStatsSucceeded
          /\ \A i \in 1..2 : tool_results[i].statistics # "null") => TwoRegionsMerged

(***************************************************************************)
(* C14: scenario C, with the rows of the trajectory RPC                    *)
(***************************************************************************)
ScenarioC == <<"S","h","o","w"," ","t","r","a","j","e","c","t","o","r","y"," ","o","f"," ","f","l","o","a","t"," ","2","9","0","2","2","3","8"," ","f","o","r"," ","l","a","s","t"," ","6","0"," ","d","a","y","s">>

\* lists of rows get_float_trajectory can return, by name: the profile
\* dates (day numbers) of the rows in the order the store returns them
TrajectoryRowDates ==
  [ rows_1     |-> << 1 >>,
    rows_1_1   |-> << 1, 1 >>,
    rows_1_2   |-> << 1, 2 >>,
    rows_2_1   |-> << 2, 1 >>,
    rows_1_2_3 |-> << 1, 2, 3 >>,
    rows_1_3_2 |-> << 1, 3, 2 >> ]

\* what the trajectory RPC can do: raise, return no rows, rows with a null
\* coordinate, or one of the lists of rows
TrajectoryRpcOutcomes == {"raises", "empty", "null"} \cup DOMAIN TrajectoryRowDates

InitScenarioC ==
  /\ query = ScenarioC
  /\ retrieved = NoRetrieval
  /\ session_context = << >>
  /\ CallStart({0})

\* one iteration of the loop over analysis["tool_calls"], the rows of a
\* trajectory call spelled out
ExecuteToolWithRows ==
  /\ pc = "mcp_execute"
  /\ Len(tool_results) < Len(analysis.tool_calls)
  /\ LET tool_call == analysis.tool_calls[Len(tool_results) + 1]
     IN  \E rpc \in (IF tool_call.name = "get_float_trajectory"
                       THEN TrajectoryRpcOutcomes ELSE StoreRpcOutcomes) :
           tool_results' = Append(tool_results, execute_tool(tool_call, rpc))
  /\ UNCHANGED <<call_vars, generator_vars, shaper_vars, count_vars, pc, path, key_vars, loop_vars, sql_vars, analysis, caught,
                 envelope>>

NextScenarioC ==
  \/ RouteQuery
  \/ ToolAnalysisAttempt
  \/ ReturnFailedAnalysis
  \/ BeginToolCalls
  \/ ExecuteToolWithRows
  \/ SynthesizeResponse

SpecScenarioC == InitScenarioC /\ [][NextScenarioC]_vars

\* the plan is one get_float_trajectory call for float 2902238 and 60 days
OneTrajectoryPlanned ==
  /\ analysis # Unset
  /\ "tool_calls" \in DOMAIN analysis
  /\ Len(analysis.tool_calls) = 1
  /\ analysis.tool_calls[1].name = "get_float_trajectory"
  /\ analysis.tool_calls[1].parameters = [wmo_id |-> 2902238, days_back |-> 60]

\* the call ended in an envelope whose payload has a trajectory path
TrajectoryShaped ==
  /\ pc = "done"
  /\ envelope.success
  /\ "trajectory" \in DOMAIN envelope.data

\* the dates of the rows of a path never decrease
NonDecreasingDates(rows) ==
  LET dates == TrajectoryRowDates[rows]
  IN  \A i \in 1..(Len(dates) - 1) : dates[i] <= dates[i + 1]

\* C14 as stated: the scenario query goes to the tool path, the plan the
\* code makes for it is a single get_float_trajectory call with wmo_id
\* 2902238 and days_back 60, and the path of the shaped result has
\* non-decreasing dates
C14_ScenarioC ==
  query = ScenarioC =>
    /\ pc # "route" => path = "mcp"
    /\ UnparsableEveryAttempt => OneTrajectoryPlanned
    /\ TrajectoryShaped => NonDecreasingDates(envelope.data.trajectory.path)

\* the part of C14 the code keeps: route and plan, and a path that is the
\* list of rows in the order the store returned them
C14_RoutePlanAndStoreOrder ==
  query = ScenarioC =>
    /\ pc # "route" => path = "mcp"
    /\ UnparsableEveryAttempt => OneTrajectoryPlanned
    /\ TrajectoryShaped =>
         \E i \in 1..Len(tool_results) :
           /\ tool_results[i].success
           /\ tool_results[i].tool_name = "get_float_trajectory"
           /\ envelope.data.trajectory.path = tool_results[i].trajectory

(***************************************************************************)
(* C15: generate_query always returns an SQLResponse                       *)
(***************************************************************************)
SqlResponseFields ==
  { "success", "sql_query", "query_type", "explanation", "confidence",
    "suggested_visualizations" }

\* C15: generate_query does not raise; the value it returns has the fields
\* success, sql_query, query_type, explanation, confidence and
\* suggested_visualizations, and its success is false only when the model
\* attempt failed (or its SQL was rejected) and the template fallback
\* failed as well
C15_GenerateQueryAlwaysReturns ==
  /\ pc = "raised" => path # "direct_sql"
  /\ pc = "sql_generated" =>
       /\ SqlResponseFields \subseteq DOMAIN sql_response
       /\ sql_response.success \in BOOLEAN
       /\ ~sql_response.success =>
            /\ TemplateFallbackUsed
            /\ ~generate_template_fallback(analyze_query_intent(query), query, now).success

\* generate_query returned success=false after the model call failed on
\* every attempt
C15_Witness ==
  /\ pc = "sql_generated"
  /\ ~sql_response.success
  /\ ~llm_response.success
  /\ SqlResponseFields \subseteq DOMAIN sql_response

(***************************************************************************)
(* C16: the ad-hoc SQL tool, with plans that call it                       *)
(***************************************************************************)
\* SQL texts the model can put into an execute_validated_query call
ToolSqlTexts ==
  { <<"S","E","L","E","C","T"," ","*"," ","F","R","O","M"," ","a","r","g","o","_","f","l","o","a","t","s"," ","L","I","M","I","T"," ","5">>,
    <<"S","E","L","E","C","T"," ","*"," ","F","R","O","M"," ","a","r","g","o","_","f","l","o","a","t","s",";"," ","D","E","L","E","T","E"," ","F","R","O","M"," ","a","r","g","o","_","f","l","o","a","t","s">>,
    <<"D","R","O","P"," ","T","A","B","L","E"," ","a","r","g","o","_","f","l","o","a","t","s">>,
    <<"S","E","L","E","C","T"," ","1">>,
    <<"S","E","L","E","C","T"," ","*"," ","F","R","O","M"," ","o","c","e","a","n","_","d","a","t","a">> }

SqlToolCalls ==
  { [ name |-> "execute_validated_query",
      parameters |-> [sql_query |-> t, query_type |-> "statistical"] ] : t \in ToolSqlTexts }

SqlToolPlans == UNION { [1..k -> SqlToolCalls] : k \in 1..MaxTools }

SqlToolPlanOutcomes ==
  { [kind |-> "raises"], [kind |-> "not_json"] }
  \cup { [kind |-> "json", body |-> [tool_calls |-> plan]] : plan \in SqlToolPlans }

InitSqlTool ==
  /\ query = <<"s","u","m","m","a","r","y"," ","o","f"," ","f","l","o","a","t","s">>
  /\ retrieved = NoRetrieval
  /\ session_context = << >>
  /\ CallStart({0})

SqlToolAnalysisAttempt == ToolAnalysisAttemptWith(SqlToolPlanOutcomes)

NextSqlTool ==
  \/ RouteQuery
  \/ SqlToolAnalysisAttempt
  \/ ReturnFailedAnalysis
  \/ BeginToolCalls
  \/ ExecuteTool
  \/ SynthesizeResponse

SpecSqlTool == InitSqlTool /\ [][NextSqlTool]_vars

\* C16 as stated: an execute_validated_query call whose SQL fails the
\* checks of _validate_sql yields a success=false result and its SQL is
\* not sent to the store (so the failure is not the store's)
C16_ToolRevalidatesSql ==
  \A i \in 1..Len(tool_results) :
    LET tool_call == analysis.tool_calls[i]
        r == tool_results[i]
    IN  (/\ tool_call.name = "execute_validated_query"
         /\ ~validate_sql(tool_call.parameters.sql_query)) =>
          /\ ~r.success
          /\ r.error # StoreError

(***************************************************************************)
(* C17: the batch is complete before the synthesis                         *)
(***************************************************************************)
\* there is exactly one result per planned tool call, in plan order
FullBatchInPlanOrder ==
  /\ Len(tool_results) = Len(analysis.tool_calls)
  /\ \A i \in 1..Len(tool_results) :
       tool_results[i].tool_name = analysis.tool_calls[i].name

\* C17: on the tool path the step that synthesizes the response is taken
\* only when every tool call of the plan has its result entry, one per
\* call in plan order; it leaves the batch as it is, each step of the loop
\* before it adds the result of the next planned call, and once the call
\* has ended no second synthesis follows
C17_SynthesisAfterFullBatch ==
  [][ /\ (pc = "mcp_execute" /\ pc' # "mcp_execute") =>
           /\ FullBatchInPlanOrder
           /\ tool_results' = tool_results
      /\ (pc = "mcp_execute" /\ pc' = "mcp_execute") =>
           /\ Len(tool_results') = Len(tool_results) + 1
           /\ SubSeq(tool_results', 1, Len(tool_results)) = tool_results
           /\ tool_results'[Len(tool_results')].tool_name =
                analysis.tool_calls[Len(tool_results')].name
      /\ pc \in {"done", "raised"} => pc' = pc
    ]_vars

\* a response was synthesized from the results of a plan of two calls
C17_Witness ==
  /\ pc = "done"
  /\ path = "mcp"
  /\ Len(analysis.tool_calls) = 2
  /\ FullBatchInPlanOrder
  /\ "tools_used" \in DOMAIN envelope

(***************************************************************************)
(* C18: the context list, with the answers of the knowledge base           *)
(***************************************************************************)
\* a query without region and BGC terms and one with both
ContextQueries == { <<"s","h","o","w"," ","f","l","o","a","t","s">>, <<"S","h","o","w"," ","m","e"," ","B","G","C"," ","f","l","o","a","t","s"," ","i","n"," ","t","h","e"," ","A","r","a","b","i","a","n"," ","S","e","a">> }

InitContext ==
  /\ query \in ContextQueries
  /\ retrieved \in RetrievalResults
  /\ session_context = << >>
  /\ CallStart({0})

NextContext ==
  \/ RouteQuery
  \/ GenerateQuery

SpecContext == InitContext /\ [][NextContext]_vars

\* _get_relevant_context has returned
ContextAssembled == pc \in {"sql_llm", "sql_generated"}

\* the chunks the searches of the call returned, in retrieval order
AllRetrieved == retrieved_chunks(analyze_query_intent(query), retrieved)

\* the places of the list `all` that hold the first chunk with their prefix
FirstOccurrences(all) ==
  { i \in 1..Len(all) :
      \A j \in 1..(i - 1) : Take(all[j].content, 100) # Take(all[i].content, 100) }

\* the k-th of the places `firsts`, in ascending order
KthPlace(firsts, k) ==
  CHOOSE i \in firsts : Cardinality({ j \in firsts : j < i }) = k - 1

\* C18: the context list has at most 8 entries, no two of them have the
\* same first 100 characters of content, and it consists of the first
\* occurrences of the content prefixes among the retrieved chunks, in
\* retrieval order, as far as the limit of 8 allows
C18_ContextIsDeduplicatedAndCapped ==
  ContextAssembled =>
    LET all == AllRetrieved
        firsts == FirstOccurrences(all)
    IN  /\ Len(context_chunks) <= 8
        /\ \A i, j \in 1..Len(context_chunks) :
             i # j => Take(context_chunks[i].content, 100)
                        # Take(context_chunks[j].content, 100)
        /\ Len(context_chunks) =
             IF Cardinality(firsts) <= 8 THEN Cardinality(firsts) ELSE 8
        /\ \A k \in 1..Len(context_chunks) :
             context_chunks[k] = all[KthPlace(firsts, k)]

\* nine chunks were retrieved, two of them equal in their first 100
\* characters and different after, and eight entries were returned
C18_Witness ==
  /\ ContextAssembled
  /\ Len(context_chunks) = 8
  /\ LET all == AllRetrieved
     IN  /\ Len(all) = 9
         /\ \E i, j \in 1..9 :
              /\ i < j
              /\ all[i] # all[j]
              /\ Take(all[i].content, 100) = Take(all[j].content, 100)

\* nine chunks with nine different prefixes were retrieved and the last
\* one was cut off
C18_WitnessCap ==
  /\ ContextAssembled
  /\ Len(context_chunks) = 8
  /\ Cardinality(FirstOccurrences(AllRetrieved)) = 9

(***************************************************************************)
(* Repeated calls of _generate_template_fallback on one generator          *)
(***************************************************************************)
\* how many calls the caller makes
MaxCalls == 3

\* the texts whose intents the caller passes
FallbackQueries ==
  { <<"c","o","u","n","t"," ","f","l","o","a","t","s"," ","i","n"," ","B","a","y"," ","o","f"," ","B","e","n","g","a","l"," ","p","a","s","t"," ","6"," ","m","o","n","t","h","s">>,
    <<"C","o","r","e"," ","f","l","o","a","t","s"," ","r","e","c","e","n","t"," ","e","q","u","a","t","o","r">>,
    <<"s","h","o","w"," ","s","s","t"," ","l","a","s","t"," ","y","e","a","r">>,
    <<"t","r","a","c","k"," ","f","l","o","a","t"," ","m","o","v","e","m","e","n","t">>,
    <<"S","h","o","w"," ","m","e"," ","B","G","C"," ","f","l","o","a","t","s"," ","i","n"," ","t","h","e"," ","A","r","a","b","i","a","n"," ","S","e","a">> }

InitFallback ==
  /\ query = << >>
  /\ retrieved = NoRetrieval
  /\ session_context = << >>
  /\ pc = "template_fallback"
  /\ array_tokens = << >>
  /\ array_field = << >>
  /\ Constructed({0})

\* one call, at the same day as the one before or a day later
TemplateFallbackCallWith(remembered) ==
  /\ pc = "template_fallback"
  /\ Len(template_calls) < MaxCalls
  /\ \E user_query \in FallbackQueries, day \in {now, now + 1} :
       LET intent == analyze_query_intent(user_query)
           result == generate_template_fallback(
                       IF remembered # NoValue /\ intent.region = NoValue
                         THEN [intent EXCEPT !.region = remembered] ELSE intent,
                       user_query, day)
       IN  /\ now' = day
           /\ template_calls' =
                Append(template_calls,
                       [ intent |-> intent, now |-> day,
                         success |-> result.success, sql_query |-> result.sql_query ])
  /\ UNCHANGED <<query, session_context, retrieved, context_chunks, query_intent, shaper_vars, count_vars,
                 pc, path,
                 key_vars,
                 loop_vars, sql_vars, mcp_vars, caught, envelope>>

\* faulty variant: the region of the call before is kept on the generator
TemplateFallbackCallRemembering ==
  TemplateFallbackCallWith(IF template_calls = << >> THEN NoValue
                           ELSE template_calls[Len(template_calls)].intent.region)

TemplateFallbackCall == TemplateFallbackCallWith(NoValue)

NextFallback == TemplateFallbackCall

SpecFallback == InitFallback /\ [][NextFallback]_vars

C19_WitnessLaterDay ==
  /\ Len(template_calls) = 2
  /\ template_calls[1].intent = template_calls[2].intent
  /\ template_calls[1].now < template_calls[2].now
  /\ template_calls[1].sql_query # template_calls[2].sql_query

\* the template the intent stands for; the BGC template of sql_templates is
\* the one under "bgc_profiles"
TemplateOfIntent(intent) ==
  IF intent.query_type = "profile" \/ "temperature" \in intent.parameters
    THEN "temperature_profiles"
  ELSE IF intent.query_type = "trajectory"
    THEN "trajectory"
  ELSE IF intent.float_type = "BGC" \/ intent.parameters \cap BgcParameters # {}
    THEN "bgc_profiles"
  ELSE "basic_floats"

\* Python's s.endswith(sub)
EndsWith(s, sub) == Len(s) >= Len(sub) /\ MatchesAt(s, sub, Len(s) - Len(sub))

\* the SQL of a call is the template of its intent, with the three
\* conditions as the intent has them and the limit of the statistics flag
FallbackCallFollowsIntent(call) ==
  /\ call.success
  /\ MatchesAt(call.sql_query, StripLeft(sql_templates[TemplateOfIntent(call.intent)].pre), 0)
  /\ (call.intent.region # NoValue) <=>
       /\ Contains(call.sql_query, <<" ","A","N","D"," ","l","a","t","i","t","u","d","e"," ","B","E","T","W","E","E","N"," ">>)
       /\ Contains(call.sql_query, <<" ","A","N","D"," ","l","o","n","g","i","t","u","d","e"," ","B","E","T","W","E","E","N"," ">>)
  /\ (call.intent.float_type # NoValue) <=>
       Contains(call.sql_query, <<" ","A","N","D"," ","f","l","o","a","t","_","c","a","t","e","g","o","r","y"," ","="," ","'">>)
  /\ (call.intent.timeframe # NoValue) <=>
       Contains(call.sql_query, <<" ","A","N","D"," ","p","r","o","f","i","l","e","_","d","a","t","e"," ",">","="," ","'">>)
  /\ EndsWith(call.sql_query,
              IF call.intent.statistics THEN <<" ","L","I","M","I","T"," ","1","0","0","0">> ELSE <<" ","L","I","M","I","T"," ","1","0","0">>)

\* C20: every call of the template fallback returns the template chosen by
\* the intent (temperature-profile for a profile or temperature intent, BGC
\* for a BGC subtype or parameter, trajectory for a trajectory intent, basic
\* floats otherwise), with the region box iff a region is set, a
\* float_category equality iff a subtype is set, a profile_date lower bound
\* iff a timeframe is set, and LIMIT 1000 for statistics, 100 otherwise.
C20_TemplateAndConditionsByIntent ==
  \A k \in 1..Len(template_calls) : FallbackCallFollowsIntent(template_calls[k])

\* the same for the intents that do not stand for the BGC template
C20_ExceptBgcIntents ==
  \A k \in 1..Len(template_calls) :
    TemplateOfIntent(template_calls[k].intent) # "bgc_profiles"
      => FallbackCallFollowsIntent(template_calls[k])

\* calls with the temperature, the trajectory and the basic template, with
\* and without each of the three conditions, with both limits
C20_ReachedTemperature ==
  \E k \in 1..Len(template_calls) :
    /\ TemplateOfIntent(template_calls[k].intent) = "temperature_profiles"
    /\ template_calls[k].intent.timeframe # NoValue
    /\ FallbackCallFollowsIntent(template_calls[k])

C20_ReachedTrajectory ==
  \E k \in 1..Len(template_calls) :
    /\ TemplateOfIntent(template_calls[k].intent) = "trajectory"
    /\ FallbackCallFollowsIntent(template_calls[k])

C20_ReachedStatistics ==
  \E k \in 1..Len(template_calls) :
    /\ template_calls[k].intent.statistics
    /\ template_calls[k].intent.region # NoValue
    /\ TemplateOfIntent(template_calls[k].intent) = "basic_floats"
    /\ FallbackCallFollowsIntent(template_calls[k])

C20_ReachedSubtype ==
  \E k \in 1..Len(template_calls) :
    /\ template_calls[k].intent.float_type = "Core"
    /\ ~template_calls[k].intent.statistics
    /\ FallbackCallFollowsIntent(template_calls[k])

(***************************************************************************)
(* The Intent Analyzer by itself                                           *)
(***************************************************************************)
IntentVocab ==
  { <<"f","l","o","a","t","s">>, <<"a","v","e","r","a","g","e">>, <<"t","e","m","p","e","r","a","t","u","r","e">>, <<"p","r","o","f","i","l","e">>, <<"D","e","p","t","h">>,
    <<"c","o","m","p","a","r","e">>, <<"t","r","a","c","k">>, <<"t","r","e","n","d">>, <<"m","a","p">>, <<"s","u","m","m","a","r","y">> }

\* texts of at most MaxWords words, and the text of three words of the
\* profile-before-statistical case
IntentQueries ==
  { JoinWords(ws) : ws \in WordSeqs(IntentVocab, MaxWords) }
    \cup { <<"a","v","e","r","a","g","e"," ","t","e","m","p","e","r","a","t","u","r","e"," ","p","r","o","f","i","l","e">> }

InitIntent ==
  /\ query \in IntentQueries
  /\ retrieved = NoRetrieval
  /\ session_context \in SessionContexts
  /\ pc = "analyze_intent"
  /\ array_tokens = << >>
  /\ array_field = << >>
  /\ Constructed({0})

\* _analyze_query_intent(user_query)
AnalyzeQueryIntent ==
  /\ pc = "analyze_intent"
  /\ query_intent' = analyze_query_intent(query)
  /\ pc' = "intent_analyzed"
  /\ UNCHANGED <<call_vars, retrieved, context_chunks, template_calls, shaper_vars, count_vars, path,
                 key_vars,
                 loop_vars, sql_vars, mcp_vars, caught, envelope>>

NextIntent == AnalyzeQueryIntent

SpecIntent == InitIntent /\ [][NextIntent]_vars

\* the rules in their order: a category and the words that select it
CategoryRules ==
  << [ category |-> "profile",
       words |-> << <<"p","r","o","f","i","l","e">>, <<"d","e","p","t","h">>, <<"v","e","r","t","i","c","a","l">>, <<"p","r","e","s","s","u","r","e">> >> ],
     [ category |-> "comparative",
       words |-> << <<"c","o","m","p","a","r","e">>, <<"c","o","m","p","a","r","i","s","o","n">>, <<"v","s">>, <<"v","e","r","s","u","s">> >> ],
     [ category |-> "statistical",
       words |-> << <<"a","v","e","r","a","g","e">>, <<"m","e","a","n">>, <<"m","a","x">>, <<"m","i","n">>, <<"c","o","u","n","t">>, <<"s","u","m">> >> ],
     [ category |-> "trajectory",
       words |-> << <<"t","r","a","j","e","c","t","o","r","y">>, <<"p","a","t","h">>, <<"t","r","a","c","k">>, <<"m","o","v","e","m","e","n","t">> >> ],
     [ category |-> "time_series",
       words |-> << <<"t","i","m","e">>, <<"t","e","m","p","o","r","a","l">>, <<"e","v","o","l","u","t","i","o","n">>, <<"t","r","e","n","d">> >> ],
     [ category |-> "geographic",
       words |-> << <<"m","a","p">>, <<"l","o","c","a","t","i","o","n">>, <<"p","o","s","i","t","i","o","n">>, <<"g","e","o","g","r","a","p","h","i","c">>, <<"n","e","a","r","e","s","t">> >> ] >>

\* rule r matches the text, whatever its case
RuleMatches(r, text) ==
  \E w \in 1..Len(CategoryRules[r].words) :
    Contains(Lower(text), CategoryRules[r].words[w])

\* C21: the category of the intent is the category of the first rule, in
\* the order profile, comparative, statistical, trajectory, time_series,
\* geographic, one of whose words the text contains, and 'basic' when no
\* rule matches; it is fixed by the text of the query.
C21_CategoryByFirstMatchingRule ==
  pc = "intent_analyzed" =>
    /\ \A r \in 1..Len(CategoryRules) :
         (RuleMatches(r, query) /\ \A e \in 1..(r - 1) : ~RuleMatches(e, query))
           => query_intent.query_type = CategoryRules[r].category
    /\ (\A r \in 1..Len(CategoryRules) : ~RuleMatches(r, query))
         => query_intent.query_type = "basic"
    /\ query_intent.statistics = (query_intent.query_type = "statistical")
    /\ query_intent.comparison = (query_intent.query_type = "comparative")

\* 'average temperature profile' has a profile and a statistical word
C21_Witness ==
  /\ pc = "intent_analyzed"
  /\ query = <<"a","v","e","r","a","g","e"," ","t","e","m","p","e","r","a","t","u","r","e"," ","p","r","o","f","i","l","e">>
  /\ RuleMatches(1, query)
  /\ RuleMatches(3, query)
  /\ query_intent.query_type = "profile"

\* a text none of whose words is a rule's word
C21_WitnessBasic ==
  /\ pc = "intent_analyzed"
  /\ query = <<"f","l","o","a","t","s"," ","t","e","m","p","e","r","a","t","u","r","e">>
  /\ query_intent.query_type = "basic"

(***************************************************************************)
(* The Result Shaper's strategy                                            *)
(***************************************************************************)
\* the strategy that goes with a declared query type
StrategyOfType(query_type) ==
  IF query_type \in {"geographic", "profile", "time_series", "comparative", "statistical"}
    THEN query_type
    ELSE "general"

\* a direct-SQL call whose rows went through a shaping branch
ShapedByBranch ==
  /\ pc = "done"
  /\ path = "direct_sql"
  /\ envelope.success
  /\ "strategy" \in DOMAIN envelope.data

\* C22: the rows are shaped by the strategy of the query type declared in
\* the metadata generate_query attached (geographic, profile, time_series,
\* comparative, statistical, any other type the general one), on each route
\* of the synthesizer and with the suggested_visualizations it attaches.
C22_StrategyByDeclaredType ==
  ShapedByBranch => envelope.data.strategy = StrategyOfType(sql_response.query_type)

\* the same for metadata whose suggestions have none of the three names the
\* shaper tests
C22_StrategyByTypeWithoutNamedSuggestion ==
  (ShapedByBranch
     /\ sql_response.suggested_visualizations
          \cap {"map", "depth_profile", "time_series"} = {})
    => envelope.data.strategy = StrategyOfType(sql_response.query_type)

\* a statistical result shaped by the statistical strategy
C22_ReachedStatistical ==
  /\ ShapedByBranch
  /\ sql_response.query_type = "statistical"
  /\ envelope.data.strategy = "statistical"

\* a profile result of the profile route, shaped by the geographic strategy
C22_ReachedProfileAsGeographic ==
  /\ ShapedByBranch
  /\ sql_response.query_type = "profile"
  /\ sql_response.explanation[1] = "Retrieving profile data"
  /\ envelope.data.strategy = "geographic"

(***************************************************************************)
(* The Result Shaper's failures                                            *)
(***************************************************************************)
\* process_query_results has returned to _process_direct_sql
ShaperReturned == processed_results # Unset

\* the error shape of the shaper
IsErrorShape(value) ==
  /\ ~value.success
  /\ "error" \in DOMAIN value
  /\ value.data.display_components = << "error" >>
  /\ value.data.query_results = "no_rows"

\* the 'no results' shape of the shaper
IsNoResultsShape(value) ==
  /\ value.success
  /\ value.data.title = "No Results Found"
  /\ value.data.query_results = "no_rows"
  /\ "strategy" \notin DOMAIN value.data

\* C23: process_query_results always returns to its caller: for rows on
\* which a shaping branch raises it returns the error shape (success false,
\* the message, display_components ['error'], no query_results), and for
\* zero rows the 'no results' success shape, no branch having run.
C23_ShaperNeverRaises ==
  /\ pc = "sql_shape" => ~ShaperReturned
  /\ (pc = "done" /\ path = "direct_sql" /\ raw_results # NoValue) => ShaperReturned
  /\ ShaperReturned =>
       /\ pc = "done"
       /\ raw_results = "odd_rows" =>
            /\ IsErrorShape(processed_results)
            /\ processed_results.error = ShapingError
       /\ raw_results = "no_rows" => IsNoResultsShape(processed_results)
       /\ raw_results = "rows" =>
            processed_results.success /\ "strategy" \in DOMAIN processed_results.data

\* a shaping branch raised and the call came back with the error shape
C23_Witness ==
  /\ ShaperReturned
  /\ raw_results = "odd_rows"
  /\ IsErrorShape(processed_results)

\* zero rows
C23_WitnessNoRows ==
  /\ ShaperReturned
  /\ raw_results = "no_rows"
  /\ IsNoResultsShape(processed_results)

(***************************************************************************)
(* Both pipelines with and without the knowledge base                      *)
(***************************************************************************)
\* the chunks of a list of documents
Chunks(documents) == [i \in 1..Len(documents) |-> [content |-> documents[i]]]

\* a knowledge base that has something for every search
FullKnowledgeBase ==
  [ state     |-> "answers",
    general   |-> Chunks(GeneralDocuments),
    schema    |-> Chunks(Take(SchemaDocuments, schema_top_k)),
    geography |-> Chunks(GeographyDocuments),
    bgc       |-> Chunks(BgcDocuments),
    examples  |-> Chunks(ExampleDocuments) ]

\* without a collection, with a collection whose query raises, with a
\* collection that finds nothing, and with one that finds documents
KnowledgeBases ==
  { NoRetrieval,
    [FullKnowledgeBase EXCEPT !.state = "raises"],
    [NoRetrieval EXCEPT !.state = "answers"],
    FullKnowledgeBase }

\* a query for the model route, one for the profile route, one for the
\* fallback with a region, and one for the tool path
DegradedQueries ==
  { <<"s","h","o","w"," ","f","l","o","a","t","s">>,
    <<"S","h","o","w"," ","m","e"," ","B","G","C"," ","f","l","o","a","t","s"," ","i","n"," ","t","h","e"," ","A","r","a","b","i","a","n"," ","S","e","a">>,
    <<"S","h","o","w"," ","m","e"," ","t","e","m","p","e","r","a","t","u","r","e"," ","p","r","o","f","i","l","e","s"," ","i","n"," ","A","r","a","b","i","a","n"," ","S","e","a">>,
    <<"c","o","u","n","t"," ","f","l","o","a","t","s"," ","i","n"," ","B","a","y"," ","o","f"," ","B","e","n","g","a","l"," ","p","a","s","t"," ","6"," ","m","o","n","t","h","s">>,
    <<"C","o","m","p","a","r","e"," ","o","x","y","g","e","n"," ","l","e","v","e","l","s"," ","b","e","t","w","e","e","n"," ","A","r","a","b","i","a","n"," ","S","e","a"," ","a","n","d"," ","B","a","y"," ","o","f"," ","B","e","n","g","a","l">> }

InitDegraded ==
  /\ query \in DegradedQueries
  /\ retrieved \in KnowledgeBases
  /\ session_context = << >>
  /\ CallStart({0})

SpecDegraded == InitDegraded /\ [][Next]_vars

\* the retrieval is unavailable or finds nothing
RetrievalDegraded ==
  \/ retrieved.state # "answers"
  \/ \A search \in DOMAIN retrieved \ {"state"} : retrieved[search] = << >>

\* C24: with the retrieval unavailable, failing or empty, the pipelines go
\* on with zero context chunks: the direct path has its SQL from the model
\* or a template, the tool path has asked for its plan, no exception leaves
\* the call, and an envelope with success false has its cause in the
\* generation, the store, the plan or the tools.
C24_RetrievalFailureIsNotFatal ==
  RetrievalDegraded =>
    /\ context_chunks = << >>
    /\ pc # "raised"
    /\ (path = "direct_sql" /\ pc \in {"sql_generated", "sql_shape", "done"})
         => sql_response # Unset
    /\ (path = "direct_sql" /\ pc = "sql_generated" /\ ~sql_response.success)
         => /\ llm_response # Unset
            /\ ~llm_response.success \/ ~validate_sql(llm_response.sql_query)
    /\ (path = "mcp" /\ pc \in {"mcp_analyzed", "mcp_execute", "done"})
         => analysis # Unset
    /\ (path = "mcp" /\ pc = "mcp_analyzed") => Len(llm_outcomes) >= 1
    /\ (pc = "done" /\ ~envelope.success) =>
         IF path = "direct_sql"
           THEN ~sql_response.success \/ caught # NoError
           ELSE \/ ~Get(analysis, "success", FALSE)
                \/ caught # NoError
                \/ \A i \in 1..Len(tool_results) : ~tool_results[i].success

\* the query of the collection raised and the direct path ended with rows
C24_Witness ==
  /\ retrieved.state = "raises"
  /\ retrieved.general # << >>
  /\ pc = "done"
  /\ path = "direct_sql"
  /\ envelope.success
  /\ raw_results = "rows"
  /\ context_chunks = << >>

\* no collection, and the tool path ended with a successful envelope
C24_WitnessTools ==
  /\ retrieved.state = "none"
  /\ pc = "done"
  /\ path = "mcp"
  /\ envelope.success
  /\ Len(tool_results) >= 1

\* with a knowledge base that answers, chunks reach both pipelines
C24_WitnessContext ==
  /\ retrieved = FullKnowledgeBase
  /\ path = "mcp"
  /\ Len(context_chunks) = 4

(***************************************************************************)
(* How often the model is asked                                            *)
(***************************************************************************)
InitTerminating ==
  /\ query \in DegradedQueries
  /\ retrieved = NoRetrieval
  /\ session_context = << >>
  /\ CallStart(KeyLoads)

\* the states in which a step of Next can be taken: a call that has not
\* returned its envelope and has not raised
CallInProgress == pc \notin {"done", "raised"}

\* the interpreter runs a call to its end: while a step can be taken, one
\* is taken (weak fairness of Next, with CallInProgress for ENABLED)
SpecTerminating ==
  /\ InitTerminating
  /\ [][Next]_vars
  /\ ([]<>(~CallInProgress) \/ []<><<Next>>_vars)

\* the iterations of the call in progress in which a client was invoked
ModelAttempts == { i \in 1..Len(llm_outcomes) : llm_outcomes[i] # "no_client" }

\* the model client has answered the one call the path makes
ClientReturned ==
  /\ pc = "sql_validate" =>
       /\ llm_response # Unset
       /\ llm_response.success \in BOOLEAN
       /\ ~llm_response.success => "error" \in DOMAIN llm_response
  /\ pc = "mcp_analyzed" =>
       /\ analysis # Unset
       /\ \/ "tool_calls" \in DOMAIN analysis
          \/ ~Get(analysis, "success", FALSE)

AskedAtMostOnce ==
  /\ llm_calls <= 1
  /\ Len(llm_outcomes) <= max_retries
  /\ Cardinality(ModelAttempts) <= 3
  /\ ClientReturned

\* C25: a query asks the model client for at most one response
\* (generate_sql_query on the direct path, generate_tool_analysis on the
\* tool path) and never asks again; the call makes at most 3 attempts and
\* returns a parsed response, a fallback plan or a failure value; and the
\* query comes to its end with an envelope.
C25_OneModelCallThatTerminates ==
  /\ []AskedAtMostOnce
  /\ <>(pc = "done" /\ envelope # Unset)

\* the model was asked once, three attempts failed, and the call ended
C25_Witness ==
  /\ pc = "sql_validate"
  /\ llm_calls = 1
  /\ Len(llm_outcomes) = 3
  /\ Cardinality(ModelAttempts) = 3
  /\ ~llm_response.success

\* the same on the tool path, ending in the fallback plan
C25_WitnessTools ==
  /\ pc = "mcp_analyzed"
  /\ llm_calls = 1
  /\ llm_outcomes = << "not_json", "not_json", "not_json" >>
  /\ Get(analysis, "success", FALSE)

(***************************************************************************)
(* Array texts                                                             *)
(***************************************************************************)
\* longest array, in elements, that the array specification enumerates
MaxTokens == 4

\* elements as the store writes them: numbers, absent values, an empty
\* element and one that is not a number
ArrayTokens == { <<"1",".","0">>, <<"2",".","5">>, <<"N","U","L","L">>, <<"3">>, <<" ","N","a","N"," ">>, << >>, <<"x">> }

TokenSeqs == UNION { [1..n -> ArrayTokens] : n \in 0..MaxTokens }

RECURSIVE JoinComma(_)
\* ",".join(tokens)
JoinComma(tokens) ==
  IF Len(tokens) = 0 THEN << >>
  ELSE IF Len(tokens) = 1 THEN tokens[1]
  ELSE tokens[1] \o <<",">> \o JoinComma(Tail(tokens))

\* the array text of the elements, as PostgreSQL writes it or without braces
ArrayTexts(tokens) == { <<"{">> \o JoinComma(tokens) \o <<"}">>, JoinComma(tokens) }

InitArray ==
  /\ query = << >>
  /\ retrieved = NoRetrieval
  /\ session_context = << >>
  /\ pc = "parse_array"
  /\ array_tokens \in TokenSeqs
  /\ array_field \in ArrayTexts(array_tokens)
  /\ Constructed({0})

\* a caller parses the text with utils.helpers.parse_array_string
ParseArrayString ==
  /\ pc = "parse_array"
  /\ parsed_array' = parse_array_string(array_field)
  /\ pc' = "extract_array"
  /\ UNCHANGED <<call_vars, generator_vars, processed_results, array_tokens, array_field,
                 extracted_array, count_vars, path, key_vars, loop_vars, sql_vars, mcp_vars,
                 caught, envelope>>

\* and with ArgoDataProcessor._extract_array_data
ExtractArrayData ==
  /\ pc = "extract_array"
  /\ extracted_array' = extract_array_data(array_field)
  /\ pc' = "arrays_done"
  /\ UNCHANGED <<call_vars, generator_vars, processed_results, array_tokens, array_field,
                 parsed_array, count_vars, path, key_vars, loop_vars, sql_vars, mcp_vars,
                 caught, envelope>>

NextArray ==
  \/ ParseArrayString
  \/ ExtractArrayData

SpecArray == InitArray /\ [][NextArray]_vars

\* the number an element stands for, in thousandths; the other elements
\* stand for none
NumberOfToken ==
  (<<"1",".","0">> :> 1000) @@ (<<"2",".","5">> :> 2500) @@ (<<"3">> :> 3000)

RECURSIVE NumbersOf(_)
\* the numbers of the numeric elements, in the order of the elements
NumbersOf(tokens) ==
  IF Len(tokens) = 0 THEN << >>
  ELSE IF tokens[1] \in DOMAIN NumberOfToken
    THEN << Finite(NumberOfToken[tokens[1]]) >> \o NumbersOf(Tail(tokens))
  ELSE NumbersOf(Tail(tokens))

\* C26: parsing an array text keeps the numeric elements in their order
\* and drops the others (NULL, NaN in any case, empty elements, texts that
\* are no number): "{1.0,2.5,NULL,3}" gives [1.0, 2.5, 3.0]; and
\* parse_array_string and _extract_array_data give the same list.
C26_ArrayParsersAgree ==
  pc = "arrays_done" =>
    /\ parsed_array = NumbersOf(array_tokens)
    /\ extracted_array = parsed_array
    /\ array_field = <<"{","1",".","0",",","2",".","5",",","N","U","L","L",",","3","}">> =>
         parsed_array = << Finite(1000), Finite(2500), Finite(3000) >>

\* the text of the example was parsed by both
C26_Witness ==
  /\ pc = "arrays_done"
  /\ array_field = <<"{","1",".","0",",","2",".","5",",","N","U","L","L",",","3","}">>
  /\ Len(parsed_array) = 3
  /\ Len(extracted_array) = 3

\* a text with NaN in mixed case, an empty element and one that is no number
C26_WitnessDropped ==
  /\ pc = "arrays_done"
  /\ array_field = <<"{"," ","N","a","N"," ",",",",","x",",","2",".","5","}">>
  /\ extracted_array = << Finite(2500) >>

(***************************************************************************)
(* Direct-SQL path: one store call, after a successful generation          *)
(***************************************************************************)
\* generate_query has returned
Generated == sql_response # Unset

C27_WitnessFailedGeneration ==
  /\ path = "direct_sql"
  /\ pc = "done"
  /\ Generated
  /\ ~sql_response.success
  /\ store_queries = << >>
  /\ envelope = sql_response

(***************************************************************************)
(* Direct-SQL path: the envelope after the shaper                          *)
(***************************************************************************)
\* the store call of the direct path has returned its rows
StoreReturned == path = "direct_sql" /\ raw_results # NoValue /\ pc = "done"

\* C28: on the direct-SQL path, once generation succeeded and the store
\* call returned, the envelope has success=true and execution_path
\* 'direct_sql' whatever the shaper returned; when the shaper returns its
\* error shape the envelope still has success=true, carries the shaper's
\* error payload as data and has no error field.
C28_EnvelopeSucceedsWhateverTheShaper ==
  StoreReturned =>
    /\ sql_response.success
    /\ ShaperReturned
    /\ envelope.success
    /\ envelope.execution_path = "direct_sql"
    /\ envelope.data = processed_results.data
    /\ "error" \notin DOMAIN envelope
    /\ IsErrorShape(processed_results) =>
         /\ envelope.data.title = "Processing Error"
         /\ envelope.data.execution_stats.error = processed_results.error

\* the shaper returned its error shape and the envelope reports success
C28_Witness ==
  /\ StoreReturned
  /\ IsErrorShape(processed_results)
  /\ envelope.success
  /\ envelope.data.display_components = << "error" >>

\* the shaper shaped the rows
C28_WitnessShaped ==
  /\ StoreReturned
  /\ processed_results.success
  /\ raw_results = "rows"
  /\ envelope.success

(***************************************************************************)
(* Tool path: a plan without tool calls                                    *)
(***************************************************************************)
\* the analysis succeeded and selected no tool call
ZeroToolPlan ==
  /\ path = "mcp"
  /\ analysis # Unset
  /\ Get(analysis, "success", FALSE)
  /\ Len(Get(analysis, "tool_calls", << >>)) = 0

\* C29: when the tool-plan analysis succeeds but selects zero tool calls,
\* no tool is executed and the orchestrator returns success=false with
\* error 'All tool executions failed' and an empty tool_errors list; the
\* backup sql_query of the plan is never executed.
C29_EmptyPlanFailsWithoutExecution ==
  ZeroToolPlan =>
    /\ tool_results = << >>
    /\ store_queries = << >>
    /\ raw_results = NoValue
    /\ pc # "raised"
    /\ pc = "done" =>
         envelope = [ success |-> FALSE,
                      error |-> << "All tool executions failed" >>,
                      tool_errors |-> << >>,
                      execution_path |-> "mcp" ]

\* a plan with a backup statement and no tool call came to its end
C29_Witness ==
  /\ ZeroToolPlan
  /\ pc = "done"
  /\ Get(analysis, "sql_query", NoText) = <<"S","E","L","E","C","T"," ","*"," ","F","R","O","M"," ","a","r","g","o","_","p","r","o","f","i","l","e","s">>
  /\ ~envelope.success

\* a plan whose tool_calls field was absent in the model's answer
C29_WitnessDefaulted ==
  /\ ZeroToolPlan
  /\ pc = "done"
  /\ "sql_query" \notin DOMAIN analysis
  /\ envelope.tool_errors = << >>

(***************************************************************************)
(* Key rotation of the model client over many calls                        *)
(***************************************************************************)
InitKeys ==
  /\ query = << >>
  /\ retrieved = NoRetrieval
  /\ session_context = << >>
  /\ pc = "client_ask"
  /\ array_tokens = << >>
  /\ array_field = << >>
  /\ Constructed({0})

\* client = self._get_next_available_client(), at any time: the minute of
\* any of the keys can have passed
AskForClient ==
  /\ pc = "client_ask"
  /\ \E expired \in SUBSET Keys :
       LET got == get_next_available_client(key_requests, current_key_index, expired)
       IN  /\ key_requests' = got.requests
           /\ current_key_index' = got.index
           /\ client' = got.client
  /\ pc' = "client_asked"
  /\ UNCHANGED <<call_vars, generator_vars, shaper_vars, count_vars, path, loop_vars, sql_vars,
                 mcp_vars, caught, envelope>>

\* the except branch of an attempt that is not the last: try the next key
RetryWithNextKey ==
  /\ pc = "client_asked"
  /\ client # NoClient
  /\ current_key_index' = (current_key_index + 1) % NumKeys
  /\ pc' = "client_ask"
  /\ UNCHANGED <<call_vars, generator_vars, shaper_vars, count_vars, path, key_requests, client,
                 loop_vars, sql_vars, mcp_vars, caught, envelope>>

\* the attempt ends otherwise: the model answered, the loop slept for the
\* window, or the call returned; a later attempt or call asks again
AttemptEnds ==
  /\ pc = "client_asked"
  /\ pc' = "client_ask"
  /\ UNCHANGED <<call_vars, generator_vars, shaper_vars, count_vars, path, key_vars, loop_vars,
                 sql_vars, mcp_vars, caught, envelope>>

NextKeys ==
  \/ AskForClient
  \/ RetryWithNextKey
  \/ AttemptEnds

SpecKeys == InitKeys /\ [][NextKeys]_vars

\* every counter is within the limit and the index names a client
CountersWithinLimit ==
  /\ \A k \in Keys : key_requests[k] \in 0..rate_limit_per_minute
  /\ current_key_index \in Keys

\* a step of _get_next_available_client: a client comes from the current
\* key, whose counter (zero again if its minute had passed) was below the
\* limit and is counted up by one, the other counters staying; None comes
\* only with every key at the limit in its current minute
HandsOutBelowLimit ==
  (pc = "client_ask" /\ pc' = "client_asked") =>
    IF client' = NoClient
      THEN /\ \A k \in Keys : key_requests[k] >= rate_limit_per_minute
           /\ key_requests' = key_requests
      ELSE /\ client' \in Keys
           /\ client' = current_key_index'
           /\ \/ /\ key_requests[client'] < rate_limit_per_minute
                 /\ key_requests'[client'] = key_requests[client'] + 1
              \/ key_requests'[client'] = 1
           /\ \A k \in Keys \ {client'} : key_requests'[k] = key_requests[k]

\* C30: after any sequence of _get_next_available_client calls, retries
\* and window resets each key's request counter is at most
\* rate_limit_per_minute (30) and current_key_index is a valid client
\* index; a client is handed out only from a key whose counter was below
\* the limit, and None is returned only when every key has reached the
\* limit in its current one-minute window.
C30_RotationKeepsRateLimit ==
  /\ []CountersWithinLimit
  /\ [][HandsOutBelowLimit]_vars

\* None was returned with every key at the limit
C30_Witness ==
  /\ pc = "client_asked"
  /\ client = NoClient
  /\ \A k \in Keys : key_requests[k] = rate_limit_per_minute

\* the last request of a key's minute was handed out after a rotation
C30_WitnessLastRequest ==
  /\ pc = "client_asked"
  /\ client = NumKeys - 1
  /\ key_requests[client] = rate_limit_per_minute
  /\ key_requests[0] = rate_limit_per_minute

====
